---- MODULE Spec2Model ----
(***************************************************************************)
(* Model of the dataset-catalog-api gateway: the page cache of             *)
(* fetchDatasets (an RWMutex-protected map with a 5 minute TTL), the       *)
(* uncached fetchDatasetsResponse / searchDatasetByID upstream calls, and   *)
(* the gin handlers built on them, and the transformers of the gin         *)
(* service (package transformers) and of the net/http service (main.go).   *)
(*                                                                         *)
(* Time is counted in minutes.  A Go slice is a sequence; a nil slice is   *)
(* the empty sequence together with an explicit nil flag where the code    *)
(* returns the literal nil.                                                *)
(***************************************************************************)
EXTENDS Integers, Sequences, FiniteSets, TLC

VARIABLES
    service,        \* the program that was started: the gin service or the net/http service
    now,            \* time.Now(), in minutes
    datasetCache,   \* map[int]cacheItem: a function whose domain is the key set
    cacheMutex,     \* sync.RWMutex: [readers |-> count, locked |-> writer inside]
    pc,             \* per worker: position inside the request it serves
    handler,        \* per worker: the handler that is running ("none": a bare fetchDatasets call)
    page,           \* per worker: the page argument of fetchDatasets
    data,           \* per worker: data.Items decoded from the upstream body
    item,           \* per worker: the cacheItem literal built for the store
    ret,            \* per worker: what fetchDatasets returned
    upstreamCalls,  \* per worker: http.Get calls issued by the current request
    response,       \* per worker: the HTTP exchange the handler completed
    peakReaders,    \* history: the most workers ever inside the read lock together
    lastHit         \* history: per page, the list the last hit returned since the last store

vars == <<service, now, datasetCache, cacheMutex, pc, handler, page, data, item, ret,
          upstreamCalls, response, peakReaders, lastHit>>

\* The history variables.
hist == <<peakReaders, lastHit>>

----------------------------------------------------------------------------
(* Bounds of the model *)

\* The clock stops at MaxTime minutes.
MaxTime == 6

\* The largest TotalResults below 2^53 the upstream API reports.
MaxTotalResults == 25

\* One goroutine per inbound request; two of them run concurrently.
Workers == {"w1", "w2"}

\* The pages the callers of fetchDatasets ask for.
Pages == {1, 2}

----------------------------------------------------------------------------
(* Program constants *)

pageSize == 10

\* 5 * time.Minute
TTL == 5

\* The zero time.Time (the expiration of a cacheItem that was never assigned).
ZeroTime == 0

----------------------------------------------------------------------------
(* The Dataset records the upstream API serves *)

dsA == [ID |-> "id-a", Self |-> "https://example.org/a", Type |-> "TypeA",
        Shortname |-> "Alpha", ApiUrl |-> "https://example.org/api/a",
        FirstImport |-> "2024-01-01", LastChange |-> "2024-02-02",
        Category |-> <<"Tourism">>, ApiDescription |-> [en |-> "About Alpha"],
        SwaggerUrl |-> "https://example.org/swagger/a", ODHTags |-> <<"tag-a">>,
        Meta |-> [ID |-> "id-a", Type |-> "metadata", Source |-> "odh"]]
dsB == [ID |-> "id-b", Self |-> "https://example.org/b", Type |-> "TypeB",
        Shortname |-> "Beta", ApiUrl |-> "https://example.org/api/b",
        FirstImport |-> "2023-03-03", LastChange |-> "2023-04-04",
        Category |-> <<>>, ApiDescription |-> [en |-> "About Beta"],
        SwaggerUrl |-> "https://example.org/swagger/b", ODHTags |-> <<>>,
        Meta |-> [ID |-> "id-b", Type |-> "metadata", Source |-> "odh"]]

\* The non-empty item lists a page of the upstream API may hold.
ItemLists == {<<dsA>>, <<dsB, dsA>>}

\* A Go int has 64 bits; it is carried as two limbs, hi * 2^27 + lo with
\* 0 <= lo < 2^27, so that totals up to 2^54 can be told apart.
Limb == 2^27

Int64(n) == [hi |-> n \div Limb, lo |-> n % Limb]

Less(a, b) == a.hi < b.hi \/ (a.hi = b.hi /\ a.lo < b.lo)

Succ(v) ==
    IF v.lo + 1 = Limb THEN [hi |-> v.hi + 1, lo |-> 0]
    ELSE [hi |-> v.hi, lo |-> v.lo + 1]

Pred(v) ==
    IF v.lo = 0 THEN [hi |-> v.hi - 1, lo |-> Limb - 1]
    ELSE [hi |-> v.hi, lo |-> v.lo - 1]

Times(v, n) ==
    [hi |-> v.hi * n + (v.lo * n) \div Limb, lo |-> (v.lo * n) % Limb]

\* A total past 2^53, where float64 no longer holds every integer:
\* 2^53 + 9 = 9007199254741001.
HugeTotalResults == [hi |-> Limb \div 2, lo |-> 9]

\* The TotalResults an envelope may report: none, one, a full page, one over
\* a full page, two full pages, the largest small count modelled, and a
\* count past 2^53.
TotalResultsValues ==
    {Int64(0), Int64(1), Int64(pageSize), Int64(pageSize + 1),
     Int64(pageSize + pageSize), Int64(MaxTotalResults), HugeTotalResults}

\* What http.Get and the json decode of a page request deliver: a transport
\* error, a decode error, or a decoded envelope (TotalResults, CurrentPage,
\* Items).  An Items list of length 0 stands for both "Items": [] and an
\* absent Items field.
Envelopes ==
    [kind : {"ok"}, TotalResults : TotalResultsValues, CurrentPage : Pages,
     Items : ItemLists \cup {<<>>}]

\* The outcomes fetchDatasets can tell apart: it reads only Items.
FetchOutcomes ==
    [kind : {"transport", "decode"}, Items : {<<>>}]
    \cup [kind : {"ok"}, Items : ItemLists \cup {<<>>}]

NoData == [kind |-> "none", Items |-> <<>>]
NoItem == [data |-> <<>>, expiration |-> ZeroTime]
NoRet == [data |-> <<>>, isNil |-> TRUE, err |-> "none"]
NoResponse == [status |-> 0]

\* A page value of twenty digits: a number past the range of int.
OutOfRangePage ==
    <<"9", "9", "9", "9", "9", "9", "9", "9", "9", "9",
      "9", "9", "9", "9", "9", "9", "9", "9", "9", "9">>

\* The values of the page query parameter, as character sequences
\* (c.Query("page") is the empty string when the parameter is absent).
PageStrings ==
    {<<>>, <<"0">>, <<"-", "1">>, <<"a", "b", "c">>, <<"2">>, <<"+", "3">>,
     OutOfRangePage}

\* The values of the format query parameter.
Formats == {"", "json", "yaml"}

\* The values of the :uuid path parameter.
UUIDs == {"", "id-a", "id-x"}

\* What http.Get and the decode of a detail request deliver: a transport
\* error, HTTP 404, a decode error, or one decoded Dataset.
DetailOutcomes ==
    [kind : {"transport", "status404", "decode"}, Dataset : {dsA}]
    \cup [kind : {"ok"}, Dataset : {dsA, dsB}]

\* What a page request delivers to fetchDatasetsResponse.
ResponseOutcomes ==
    [kind : {"transport", "decode"}, TotalResults : {Int64(0)},
     CurrentPage : {0},
     Items : {<<>>}]
    \cup Envelopes

NoOutcome == [kind |-> "none"]

----------------------------------------------------------------------------
(* Page cache *)

BeforeOrEqual(t, u) == t <= u

\* time.Now().Before(item.expiration)
Before(t, u) == t < u

\* The lookup of fetchDatasets: found and not expired.
CacheHit(p) ==
    /\ p \in DOMAIN datasetCache
    /\ Before(now, datasetCache[p].expiration)

MapAssignOnlyKey(m, k, v) == [q \in {k} |-> v]

MapAssignIfAbsent(m, k, v) ==
    [q \in DOMAIN m \cup {k} |-> IF q \in DOMAIN m THEN m[q] ELSE v]

MapAssignAnyKey(m, k, v) == [q \in DOMAIN m \cup {k} |-> v]

\* datasetCache[page] = v on a Go map: the key is added or its value replaced.
MapAssign(m, k, v) == [q \in DOMAIN m \cup {k} |-> IF q = k THEN v ELSE m[q]]

\* cacheItem{data: data.Items, expiration: time.Now().Add(5 * time.Minute)}
NewCacheItem(items) == [data |-> items, expiration |-> now + TTL]

IsEmptyNever(items) == FALSE

\* len(data.Items) == 0
IsEmpty(items) == Len(items) = 0

CanRLockAlways == TRUE

\* RLock succeeds when no writer holds the mutex.
CanRLock == ~cacheMutex.locked

\* Lock succeeds when neither a writer nor any reader holds the mutex.
CanLock == ~cacheMutex.locked /\ cacheMutex.readers = 0

----------------------------------------------------------------------------
(* fetchDatasets, one step per synchronisation or suspension point *)

\* cacheMutex.RLock()
RLock(w) ==
    /\ pc[w] = "rlock"
    /\ CanRLock
    /\ cacheMutex' = [cacheMutex EXCEPT !.readers = @ + 1]
    /\ pc' = [pc EXCEPT ![w] = "rcs"]
    /\ peakReaders' = IF cacheMutex.readers + 1 > peakReaders
                      THEN cacheMutex.readers + 1 ELSE peakReaders
    /\ UNCHANGED <<service, now, datasetCache, handler, page, data, item, ret,
                   upstreamCalls, response, lastHit>>

LookupSingleFlight(w) ==
    /\ pc[w] = "rcs"
    /\ cacheMutex' = [cacheMutex EXCEPT !.readers = @ - 1]
    /\ IF CacheHit(page[w])
       THEN /\ ret' = [ret EXCEPT ![w] = [data |-> datasetCache[page[w]].data,
                                          isNil |-> FALSE, err |-> "nil"]]
            /\ pc' = [pc EXCEPT ![w] = "ret"]
            /\ lastHit' = [lastHit EXCEPT ![page[w]] = datasetCache[page[w]].data]
       ELSE /\ pc' = [pc EXCEPT ![w] =
                        IF \E v \in Workers \ {w} :
                              /\ page[v] = page[w]
                              /\ pc[v] \in {"http", "wlock", "wcs", "wcs2", "wunlock"}
                        THEN "rlock" ELSE "http"]
            /\ UNCHANGED <<ret, lastHit>>
    /\ UNCHANGED <<service, now, datasetCache, handler, page, data, item,
                   upstreamCalls, response, peakReaders>>

LookupHitKeepsRLock(w) ==
    /\ pc[w] = "rcs"
    /\ IF CacheHit(page[w])
       THEN /\ ret' = [ret EXCEPT ![w] = [data |-> datasetCache[page[w]].data,
                                          isNil |-> FALSE, err |-> "nil"]]
            /\ pc' = [pc EXCEPT ![w] = "ret"]
            /\ lastHit' = [lastHit EXCEPT ![page[w]] = datasetCache[page[w]].data]
            /\ UNCHANGED cacheMutex
       ELSE /\ pc' = [pc EXCEPT ![w] = "http"]
            /\ cacheMutex' = [cacheMutex EXCEPT !.readers = @ - 1]
            /\ UNCHANGED <<ret, lastHit>>
    /\ UNCHANGED <<service, now, datasetCache, handler, page, data, item,
                   upstreamCalls, response, peakReaders>>

\* The lookup under the read lock, RUnlock, and on a hit the return.
Lookup(w) ==
    /\ pc[w] = "rcs"
    /\ cacheMutex' = [cacheMutex EXCEPT !.readers = @ - 1]
    /\ IF CacheHit(page[w])
       THEN /\ ret' = [ret EXCEPT ![w] = [data |-> datasetCache[page[w]].data,
                                          isNil |-> FALSE, err |-> "nil"]]
            /\ pc' = [pc EXCEPT ![w] = "ret"]
            /\ lastHit' = [lastHit EXCEPT ![page[w]] = datasetCache[page[w]].data]
       ELSE /\ pc' = [pc EXCEPT ![w] = "http"]
            /\ UNCHANGED <<ret, lastHit>>
    /\ UNCHANGED <<service, now, datasetCache, handler, page, data, item,
                   upstreamCalls, response, peakReaders>>

UpstreamRetry(w) ==
    /\ pc[w] = "http"
    /\ upstreamCalls' = [upstreamCalls EXCEPT ![w] = @ + 1]
    /\ \E o \in FetchOutcomes :
         /\ data' = [data EXCEPT ![w] = o]
         /\ IF o.kind # "ok"
            THEN UNCHANGED <<ret, pc>>
            ELSE IF IsEmpty(o.Items)
            THEN /\ ret' = [ret EXCEPT ![w] = [data |-> <<>>, isNil |-> TRUE,
                                               err |-> "nil"]]
                 /\ pc' = [pc EXCEPT ![w] = "ret"]
            ELSE /\ pc' = [pc EXCEPT ![w] = "wlock"]
                 /\ UNCHANGED ret
    /\ UNCHANGED <<service, now, datasetCache, cacheMutex, handler, page, item, response,
                   hist>>

UpstreamErrorEvicts(w) ==
    /\ pc[w] = "http"
    /\ upstreamCalls' = [upstreamCalls EXCEPT ![w] = @ + 1]
    /\ \E o \in FetchOutcomes :
         /\ data' = [data EXCEPT ![w] = o]
         /\ IF o.kind # "ok"
            THEN /\ ret' = [ret EXCEPT ![w] = [data |-> <<>>, isNil |-> TRUE,
                                               err |-> o.kind]]
                 /\ pc' = [pc EXCEPT ![w] = "ret"]
                 /\ datasetCache' = [q \in DOMAIN datasetCache \ {page[w]} |->
                                        datasetCache[q]]
            ELSE IF IsEmpty(o.Items)
            THEN /\ ret' = [ret EXCEPT ![w] = [data |-> <<>>, isNil |-> TRUE,
                                               err |-> "nil"]]
                 /\ pc' = [pc EXCEPT ![w] = "ret"]
                 /\ UNCHANGED datasetCache
            ELSE /\ pc' = [pc EXCEPT ![w] = "wlock"]
                 /\ UNCHANGED <<ret, datasetCache>>
    /\ UNCHANGED <<service, now, cacheMutex, handler, page, item, response, hist>>

\* http.Get and the decode of the body: the error returns, the no-data
\* return, or the items kept for the store.
Upstream(w) ==
    /\ pc[w] = "http"
    /\ upstreamCalls' = [upstreamCalls EXCEPT ![w] = @ + 1]
    /\ \E o \in FetchOutcomes :
         /\ data' = [data EXCEPT ![w] = o]
         /\ IF o.kind # "ok"
            THEN /\ ret' = [ret EXCEPT ![w] = [data |-> <<>>, isNil |-> TRUE,
                                               err |-> o.kind]]
                 /\ pc' = [pc EXCEPT ![w] = "ret"]
            ELSE IF IsEmpty(o.Items)
            THEN /\ ret' = [ret EXCEPT ![w] = [data |-> <<>>, isNil |-> TRUE,
                                               err |-> "nil"]]
                 /\ pc' = [pc EXCEPT ![w] = "ret"]
            ELSE /\ pc' = [pc EXCEPT ![w] = "wlock"]
                 /\ UNCHANGED ret
    /\ UNCHANGED <<service, now, datasetCache, cacheMutex, handler, page, item, response,
                   hist>>

\* cacheMutex.Lock()
Lock(w) ==
    /\ pc[w] = "wlock"
    /\ CanLock
    /\ cacheMutex' = [cacheMutex EXCEPT !.locked = TRUE]
    /\ pc' = [pc EXCEPT ![w] = "wcs"]
    /\ UNCHANGED <<service, now, datasetCache, handler, page, data, item, ret,
                   upstreamCalls, response, hist>>

\* The cacheItem literal is built (reading the clock) and the map assignment
\* starts: the data word of the entry is written, the expiration word still
\* holds what the key had before (the zero time for a new key).
StoreData(w) ==
    /\ pc[w] = "wcs"
    /\ item' = [item EXCEPT ![w] = NewCacheItem(data[w].Items)]
    /\ datasetCache' = MapAssign(datasetCache, page[w],
           [data |-> data[w].Items,
            expiration |-> IF page[w] \in DOMAIN datasetCache
                           THEN datasetCache[page[w]].expiration
                           ELSE ZeroTime])
    /\ pc' = [pc EXCEPT ![w] = "wcs2"]
    /\ lastHit' = [lastHit EXCEPT ![page[w]] = <<>>]
    /\ UNCHANGED <<service, now, cacheMutex, handler, page, data, ret, upstreamCalls,
                   response, peakReaders>>

\* The map assignment completes: the entry is the cacheItem literal.
StoreExpiration(w) ==
    /\ pc[w] = "wcs2"
    /\ datasetCache' = MapAssign(datasetCache, page[w], item[w])
    /\ pc' = [pc EXCEPT ![w] = "wunlock"]
    /\ UNCHANGED <<service, now, cacheMutex, handler, page, data, item, ret,
                   upstreamCalls, response, hist>>

\* cacheMutex.Unlock() and return data.Items, nil
Unlock(w) ==
    /\ pc[w] = "wunlock"
    /\ cacheMutex' = [cacheMutex EXCEPT !.locked = FALSE]
    /\ ret' = [ret EXCEPT ![w] = [data |-> data[w].Items, isNil |-> FALSE,
                                  err |-> "nil"]]
    /\ pc' = [pc EXCEPT ![w] = "ret"]
    /\ UNCHANGED <<service, now, datasetCache, handler, page, data, item,
                   upstreamCalls, response, hist>>

\* The steps of fetchDatasets after its call.
fetchDatasets(w) ==
    \/ RLock(w)
    \/ Lookup(w)
    \/ Upstream(w)
    \/ Lock(w)
    \/ StoreData(w)
    \/ StoreExpiration(w)
    \/ Unlock(w)

----------------------------------------------------------------------------
(* The callers of fetchDatasets(page) and the clock *)

\* A request handler calls fetchDatasets(page) with a page >= 1.
Call(w) ==
    /\ pc[w] = "idle"
    /\ \E p \in Pages : page' = [page EXCEPT ![w] = p]
    /\ pc' = [pc EXCEPT ![w] = "rlock"]
    /\ UNCHANGED <<service, now, datasetCache, cacheMutex, handler, data, item, ret,
                   upstreamCalls, response, hist>>

\* The caller has consumed the result; the goroutine ends.
Return(w) ==
    /\ pc[w] = "ret"
    /\ handler[w] = "none"
    /\ pc' = [pc EXCEPT ![w] = "idle"]
    /\ page' = [page EXCEPT ![w] = 0]
    /\ data' = [data EXCEPT ![w] = NoData]
    /\ item' = [item EXCEPT ![w] = NoItem]
    /\ ret' = [ret EXCEPT ![w] = NoRet]
    /\ upstreamCalls' = [upstreamCalls EXCEPT ![w] = 0]
    /\ UNCHANGED <<service, now, datasetCache, cacheMutex, handler, response, hist>>

\* The wall clock advances.
Tick ==
    /\ now < MaxTime
    /\ now' = now + 1
    /\ UNCHANGED <<service, datasetCache, cacheMutex, pc, handler, page, data, item, ret,
                   upstreamCalls, response, hist>>

\* The two programs of the repository: the gin service (package main over
\* package handlers) and the net/http service (main.go). Each has its own
\* datasetCache and cacheMutex; one of them is running.
Services == {"gin", "net/http"}

\* The state of service s when it starts to listen.
Started(s) ==
    /\ service = s
    /\ now = ZeroTime + 1
    /\ datasetCache = <<>>
    /\ cacheMutex = [readers |-> 0, locked |-> FALSE]
    /\ pc = [w \in Workers |-> "idle"]
    /\ handler = [w \in Workers |-> "none"]
    /\ page = [w \in Workers |-> 0]
    /\ data = [w \in Workers |-> NoData]
    /\ item = [w \in Workers |-> NoItem]
    /\ ret = [w \in Workers |-> NoRet]
    /\ upstreamCalls = [w \in Workers |-> 0]
    /\ response = [w \in Workers |-> NoResponse]
    /\ peakReaders = 0
    /\ lastHit = [p \in Pages |-> <<>>]

Init == Started("net/http")

Next ==
    \/ \E w \in Workers : Call(w)
    \/ \E w \in Workers : fetchDatasets(w)
    \/ \E w \in Workers : Return(w)
    \/ Tick

Spec == Init /\ [][Next]_vars

----------------------------------------------------------------------------
(* Transformers *)

\* transformers.BaseURL when BASE_URL is not set.
BaseURL == "https://data-catalog.opendatahub.testingmachine.eu/"

OrganizationName == "Noi Spa"
OrganizationURL == "https://noi.bz.it"
ContactEmail == "help@opendatahub.com"
ContactWebsite == "https://opendatahub.com"
BrandSlogan == "Develop digital solutions based on real data"

\* The nil map a transformer returns for an empty list.
NilDocument == [isNil |-> TRUE]

\* ConvertDatasets copies every element field by field.
ConvertDatasets(d) ==
    [i \in 1..Len(d) |->
        [ID |-> d[i].ID, Self |-> d[i].Self, Type |-> d[i].Type,
         Meta |-> d[i].Meta, ApiUrl |-> d[i].ApiUrl, ODHTags |-> d[i].ODHTags,
         Category |-> d[i].Category, Shortname |-> d[i].Shortname,
         LastChange |-> d[i].LastChange, SwaggerUrl |-> d[i].SwaggerUrl,
         FirstImport |-> d[i].FirstImport,
         ApiDescription |-> d[i].ApiDescription]]

\* The minute of the day at which the clock of the model reads ZeroTime:
\* 23:56, so that midnight falls inside the run.
MinuteOfDayAtZero == 1436

MinutesPerDay == 1440

\* The calendar days the run spans, in the layout "2006-01-02".
DateStrings == <<"2024-05-31", "2024-06-01">>

\* time.Now().Format("2006-01-02"): the calendar day of a clock reading in
\* minutes, as a date string.
Today(t) == DateStrings[((MinuteOfDayAtZero + t) \div MinutesPerDay) + 1]

ToDCATNilOnEmpty(datasets, t) ==
    IF Len(datasets) = 0 THEN NilDocument ELSE
    [isNil |-> FALSE,
     type |-> "dcat:Catalog",
     id |-> BaseURL \o "api-catalog",
     identifier |-> "catalog-001",
     title |-> [en |-> OrganizationName \o " API Catalog"],
     issued |-> Today(t),
     modified |-> Today(t),
     publisher |-> [type |-> "foaf:Organization", identifier |-> "org-001",
                    title |-> [en |-> OrganizationName],
                    homepage |-> OrganizationURL],
     dataset |->
        [i \in 1..Len(datasets) |->
            [type |-> "dcat:Dataset",
             id |-> datasets[i].Self,
             identifier |-> datasets[i].ID,
             title |-> [en |-> datasets[i].Shortname],
             description |-> [en |-> "Dataset type: " \o datasets[i].Type],
             issued |-> datasets[i].FirstImport,
             modified |-> datasets[i].LastChange,
             distribution |->
                <<[type |-> "dcat:Distribution",
                   id |-> datasets[i].ApiUrl,
                   identifier |-> datasets[i].ApiUrl,
                   title |-> [en |-> datasets[i].Shortname \o " API Endpoint"],
                   format |-> "application/json",
                   accessURL |-> datasets[i].ApiUrl]>>]]]

ToDCATEntriesDatedToday(datasets, t) ==
    [isNil |-> FALSE,
     type |-> "dcat:Catalog",
     id |-> BaseURL \o "api-catalog",
     identifier |-> "catalog-001",
     title |-> [en |-> OrganizationName \o " API Catalog"],
     issued |-> Today(t),
     modified |-> Today(t),
     publisher |-> [type |-> "foaf:Organization", identifier |-> "org-001",
                    title |-> [en |-> OrganizationName],
                    homepage |-> OrganizationURL],
     dataset |->
        [i \in 1..Len(datasets) |->
            [type |-> "dcat:Dataset",
             id |-> datasets[i].Self,
             identifier |-> datasets[i].ID,
             title |-> [en |-> datasets[i].Shortname],
             description |-> [en |-> "Dataset type: " \o datasets[i].Type],
             issued |-> Today(t),
             modified |-> Today(t),
             distribution |->
                <<[type |-> "dcat:Distribution",
                   id |-> datasets[i].ApiUrl,
                   identifier |-> datasets[i].ApiUrl,
                   title |-> [en |-> datasets[i].Shortname \o " API Endpoint"],
                   format |-> "application/json",
                   accessURL |-> datasets[i].ApiUrl]>>]]]

\* ToDCAT: one dcat:Dataset per input dataset, in order, inside the catalog.
ToDCAT(datasets, t) ==
    [isNil |-> FALSE,
     type |-> "dcat:Catalog",
     id |-> BaseURL \o "api-catalog",
     identifier |-> "catalog-001",
     title |-> [en |-> OrganizationName \o " API Catalog"],
     issued |-> Today(t),
     modified |-> Today(t),
     publisher |-> [type |-> "foaf:Organization", identifier |-> "org-001",
                    title |-> [en |-> OrganizationName],
                    homepage |-> OrganizationURL],
     dataset |->
        [i \in 1..Len(datasets) |->
            [type |-> "dcat:Dataset",
             id |-> datasets[i].Self,
             identifier |-> datasets[i].ID,
             title |-> [en |-> datasets[i].Shortname],
             description |-> [en |-> "Dataset type: " \o datasets[i].Type],
             issued |-> datasets[i].FirstImport,
             modified |-> datasets[i].LastChange,
             distribution |->
                <<[type |-> "dcat:Distribution",
                   id |-> datasets[i].ApiUrl,
                   identifier |-> datasets[i].ApiUrl,
                   title |-> [en |-> datasets[i].Shortname \o " API Endpoint"],
                   format |-> "application/json",
                   accessURL |-> datasets[i].ApiUrl]>>]]]

ToODPSLastFirst(datasets) ==
    [isNil |-> FALSE,
     odps |-> "1.0",
     catalog |->
        [title |-> "API Catalog",
         description |-> "A catalog of APIs provided by " \o OrganizationName \o ".",
         publisher |-> [name |-> OrganizationName, url |-> OrganizationURL],
         apis |->
            [i \in 1..Len(datasets) |->
                LET ds == datasets[Len(datasets) + 1 - i] IN
                [id |-> ds.ID,
                 title |-> ds.Shortname,
                 description |-> "Dataset type: " \o ds.Type,
                 version |-> "v1",
                 contact |-> [name |-> "Support Open Data Hub",
                              email |-> ContactEmail],
                 endpoints |-> <<[url |-> ds.ApiUrl,
                                  methods |-> <<"GET">>,
                                  formats |-> <<"application/json">>,
                                  documentation |-> ContactWebsite]>>,
                 license |-> [name |-> "CC BY 4.0",
                              url |-> "https://creativecommons.org/licenses/by/4.0/"]]]]]

\* ToODPS: the ODPS v1.0 catalog, one api entry per input dataset, in order.
ToODPS(datasets) ==
    [isNil |-> FALSE,
     odps |-> "1.0",
     catalog |->
        [title |-> "API Catalog",
         description |-> "A catalog of APIs provided by " \o OrganizationName \o ".",
         publisher |-> [name |-> OrganizationName, url |-> OrganizationURL],
         apis |->
            [i \in 1..Len(datasets) |->
                [id |-> datasets[i].ID,
                 title |-> datasets[i].Shortname,
                 description |-> "Dataset type: " \o datasets[i].Type,
                 version |-> "v1",
                 contact |-> [name |-> "Support Open Data Hub",
                              email |-> ContactEmail],
                 endpoints |-> <<[url |-> datasets[i].ApiUrl,
                                  methods |-> <<"GET">>,
                                  formats |-> <<"application/json">>,
                                  documentation |-> ContactWebsite]>>,
                 license |-> [name |-> "CC BY 4.0",
                              url |-> "https://creativecommons.org/licenses/by/4.0/"]]]]]

\* ToODPS30: nil for an empty list, else the product document of datasets[0]
\* (the entries that are built from the dataset; the fixed literals of the
\* document are left out).
ToODPS30(datasets) ==
    IF Len(datasets) = 0 THEN NilDocument
    ELSE LET ds == datasets[1] IN
    [isNil |-> FALSE,
     schema |-> "https://opendataproducts.org/v3.0/schema/odps.yaml",
     version |-> "dev",
     product |->
        [en |-> [name |-> ds.Shortname,
                 productID |-> ds.ID,
                 valueProposition |-> "A tailored data product for " \o ds.Type \o " data",
                 description |-> ds.ApiDescription.en,
                 productSeries |-> ds.Shortname \o " Series",
                 visibility |-> "public",
                 status |-> "active",
                 version |-> "v1.0",
                 categories |-> ds.Category,
                 tags |-> ds.ODHTags,
                 brandSlogan |-> BrandSlogan,
                 type |-> ds.Type,
                 logoURL |-> ds.Self,
                 useCases |-> <<[useCase |->
                                    [useCaseTitle |-> "Discover Insights - example",
                                     useCaseDescription |-> "description example",
                                     useCaseURL |-> ds.ApiUrl \o "/usecase/insights"]]>>]],
     recommendedDataProducts |-> <<ds.ApiUrl \o "/recommended/1",
                                   ds.ApiUrl \o "/recommended/2">>,
     dataOps |-> [schemaLocationURL |-> ds.ApiUrl \o "/schema",
                  scriptURL |-> ds.ApiUrl \o "/build.sh",
                  deploymentDocumentationURL |-> ds.ApiUrl \o "/deploy"],
     dataAccess |-> [documentationURL |-> ds.ApiUrl \o "/docs"],
     SLA |-> [reference |-> ds.ApiUrl \o "/monitoring"],
     support |-> [documentationURL |-> ds.SwaggerUrl],
     dataQuality |-> [reference |-> ds.ApiUrl \o "/quality"],
     dataHolder |-> [logoURL |-> ds.Self, URL |-> ds.Self]]

\* ToODPS31: nil for an empty list, else the product document of datasets[0]
\* (the entries that are built from the dataset; the fixed literals of the
\* document are left out).
ToODPS31(datasets) ==
    IF Len(datasets) = 0 THEN NilDocument
    ELSE LET ds == datasets[1] IN
    [isNil |-> FALSE,
     schema |-> "https://opendataproducts.org/v3.1/schema/odps.yaml",
     version |-> "3.1",
     product |->
        [en |-> [categories |-> ds.Category,
                 description |-> ds.ApiDescription.en,
                 logoURL |-> ds.Self,
                 name |-> ds.Shortname,
                 productID |-> ds.ID,
                 productSeries |-> ds.Shortname \o " Series",
                 brandSlogan |-> BrandSlogan,
                 status |-> "active",
                 tags |-> <<>>,
                 type |-> ds.Type,
                 useCases |-> <<[useCase |->
                                    [useCaseTitle |-> "Discover Insights - example",
                                     useCaseDescription |-> "description example",
                                     useCaseURL |-> ds.ApiUrl \o "/usecase/insights"]]>>,
                 valueProposition |-> "A tailored data product for " \o ds.Type \o " data",
                 version |-> "v1.0",
                 visibility |-> "public"],
         dataAccess |-> [documentationURL |-> ds.SwaggerUrl],
         dataHolder |-> [URL |-> ds.Self, logoURL |-> ds.Self],
         dataOps |-> [deploymentDocumentationURL |-> ds.Self \o "/deploy",
                      scriptURL |-> ds.Self \o "/build.sh",
                      schemaLocationURL |-> ds.Self \o "/schema"],
         SLA |-> [reference |-> ds.Self \o "/monitoring"],
         dataQuality |-> [reference |-> ds.Self \o "/quality"],
         recommendedDataProducts |-> <<ds.Self \o "/recommended/1",
                                       ds.Self \o "/recommended/2">>,
         support |-> [documentationURL |-> ds.SwaggerUrl]],
     details |-> [summary |-> ds.Shortname,
                  description |-> ds.ApiDescription.en,
                  language |-> "en",
                  metadata |-> ds.Meta],
     issued |-> ds.FirstImport,
     modified |-> ds.LastChange]

----------------------------------------------------------------------------
(* Transformers of the net/http service (main.go) *)

\* The Dataset literal toODPS30 uses when the list is empty.
DefaultFirst ==
    [ID |-> "default", Self |-> "https://example.org/default",
     Type |-> "unknown", Shortname |-> "Default Dataset",
     ApiUrl |-> "https://example.org/api/default"]

\* The keys of categoriesSet: the non-empty Type of every dataset.
CategoriesSet(datasets) ==
    {datasets[i].Type : i \in 1..Len(datasets)} \ {""}

\* The orders in which ranging over a Go map may visit the keys S.
MapOrders(S) ==
    {f \in [1..Cardinality(S) -> S] :
        \A i, j \in 1..Cardinality(S) : f[i] = f[j] => i = j}

\* The useCases both toODPS30 and toODPS31 append, one per dataset.
UseCasesOfAll(datasets) ==
    [i \in 1..Len(datasets) |->
        [useCase |->
            [useCaseTitle |-> datasets[i].Shortname,
             useCaseDescription |-> "Dataset type: " \o datasets[i].Type,
             useCaseURL |-> datasets[i].ApiUrl]]]

\* toDCAT of main.go: the catalog and its entries carry no dates and no
\* dct:identifier; the names are plain strings.
toDCAT(datasets) ==
    [isNil |-> FALSE,
     type |-> "dcat:Catalog",
     id |-> "https://example.org/api-catalog",
     title |-> "NOI SPA API Catalog",
     description |-> "A catalog of APIs provided by NOI SPA.",
     publisher |-> [type |-> "foaf:Organization", name |-> "Noi SPA",
                    homepage |-> "https://noi.bz.it"],
     dataset |->
        [i \in 1..Len(datasets) |->
            [type |-> "dcat:Dataset",
             id |-> datasets[i].Self,
             title |-> datasets[i].Shortname,
             description |-> "Dataset type: " \o datasets[i].Type,
             distribution |->
                <<[type |-> "dcat:Distribution",
                   id |-> datasets[i].ApiUrl,
                   title |-> datasets[i].Shortname \o " API Endpoint",
                   format |-> "application/json",
                   accessURL |-> datasets[i].ApiUrl]>>]]]

\* toODPS of main.go.
toODPS(datasets) ==
    [isNil |-> FALSE,
     odps |-> "1.0",
     catalog |->
        [title |-> "API Catalog",
         description |-> "A catalog of APIs provided by NOI SPA.",
         publisher |-> [name |-> "Noi SPA", url |-> "https://noi.bz.it"],
         apis |->
            [i \in 1..Len(datasets) |->
                [id |-> datasets[i].ID,
                 title |-> datasets[i].Shortname,
                 description |-> "Dataset type: " \o datasets[i].Type,
                 version |-> "v1",
                 contact |-> [name |-> "Support Open Data Hub",
                              email |-> "help@opendatahub.com"],
                 endpoints |-> <<[url |-> datasets[i].ApiUrl,
                                  methods |-> <<"GET">>,
                                  formats |-> <<"application/json">>,
                                  documentation |-> "https://opendatahub.com/"]>>,
                 license |-> [name |-> "CC BY 4.0",
                              url |-> "https://creativecommons.org/licenses/by/4.0/"]]]]]

\* toODPS30 of main.go: never nil; the product is named after the first
\* dataset (DefaultFirst for an empty list), categories and useCases are
\* collected from all datasets.  categories is the map order the run took.
toODPS30(datasets, categories) ==
    LET first == IF Len(datasets) > 0 THEN datasets[1] ELSE DefaultFirst
        useCases ==
            IF Len(datasets) = 0
            THEN <<[useCase |->
                      [useCaseTitle |-> "Default Dataset",
                       useCaseDescription |-> "Default dataset description",
                       useCaseURL |-> "https://example.org/api/default"]]>>
            ELSE UseCasesOfAll(datasets)
    IN  [isNil |-> FALSE,
         schema |-> "source/schema/odps-dev-yaml-schema.yaml",
         version |-> "dev",
         product |->
            [en |-> [name |-> first.Shortname,
                     productID |-> first.ID,
                     description |-> "Catalog for dataset type: " \o first.Type,
                     categories |-> categories,
                     type |-> first.Type,
                     logoURL |-> first.Self,
                     useCases |-> useCases]]]

\* toODPS31 of main.go: never nil; categories and useCases are collected
\* from all datasets and details.metadata counts them.
toODPS31(datasets, categories) ==
    [isNil |-> FALSE,
     schema |-> "source/schema/odps.yaml",
     version |-> "3.1",
     product |->
        [en |-> [name |-> "API Catalog",
                 productID |-> "catalog-001",
                 description |-> "A collection of APIs/datasets from Open Data Hub.",
                 categories |-> categories,
                 type |-> "data",
                 logoURL |-> "https://opendatahub.com/img/NOI_OPENDATAHUB_NEW_BK_nospace-01.svg",
                 useCases |-> UseCasesOfAll(datasets)]],
     details |-> [metadata |-> [datasetCount |-> Len(datasets)]]]

----------------------------------------------------------------------------
(* The gin service: request parsing, upstream calls without cache, responses *)

DigitChars == {"0", "1", "2", "3", "4", "5", "6", "7", "8", "9"}

DigitVal(c) ==
    CASE c = "0" -> 0 [] c = "1" -> 1 [] c = "2" -> 2 [] c = "3" -> 3
      [] c = "4" -> 4 [] c = "5" -> 5 [] c = "6" -> 6 [] c = "7" -> 7
      [] c = "8" -> 8 [] c = "9" -> 9

RECURSIVE DigitsValue(_)
DigitsValue(s) ==
    IF Len(s) = 0 THEN 0
    ELSE DigitsValue(SubSeq(s, 1, Len(s) - 1)) * 10 + DigitVal(s[Len(s)])

\* The digits of a digit string without its leading zeros.
RECURSIVE Significant(_)
Significant(s) ==
    IF Len(s) > 0 /\ s[1] = "0" THEN Significant(Tail(s)) ELSE s

\* The decimal digits of 1<<63 - 1, the largest int, and of 1<<63.
MaxInt64Digits ==
    <<"9", "2", "2", "3", "3", "7", "2", "0", "3", "6",
      "8", "5", "4", "7", "7", "5", "8", "0", "7">>

MinInt64Digits ==
    <<"9", "2", "2", "3", "3", "7", "2", "0", "3", "6",
      "8", "5", "4", "7", "7", "5", "8", "0", "8">>

\* a <= b for two digit strings of the same length.
RECURSIVE DigitsLeq(_, _)
DigitsLeq(a, b) ==
    IF Len(a) = 0 THEN TRUE
    ELSE IF DigitVal(a[1]) # DigitVal(b[1]) THEN DigitVal(a[1]) < DigitVal(b[1])
    ELSE DigitsLeq(Tail(a), Tail(b))

\* The decimal digits of 1<<64 - 1, the largest uint64.
MaxUint64Digits ==
    <<"1", "8", "4", "4", "6", "7", "4", "4", "0", "7",
      "3", "7", "0", "9", "5", "5", "1", "6", "1", "5">>

\* The number the digits denote is greater than the number limit denotes.
Exceeds(digits, limit) ==
    LET sig == Significant(digits)
    IN  \/ Len(sig) > Len(limit)
        \/ Len(sig) = Len(limit) /\ ~DigitsLeq(sig, limit)

\* The number the digits denote fits an int (64 bits); otherwise strconv
\* reports ErrRange.
InRange(negative, digits) ==
    ~Exceeds(digits, IF negative THEN MinInt64Digits ELSE MaxInt64Digits)

\* The digits a string starts with: ParseUint reads them one by one and
\* stops at the first other character.
RECURSIVE DigitPrefix(_)
DigitPrefix(s) ==
    IF Len(s) > 0 /\ s[1] \in DigitChars THEN <<s[1]>> \o DigitPrefix(Tail(s))
    ELSE <<>>

\* The int strconv.Atoi returns together with a range error: the nearest
\* bound of int, 1<<63 - 1 or -1<<63. Neither is a number the checker
\* computes with, so the bound is carried as its sign and decimal digits.
Saturated(negative) ==
    [negative |-> negative,
     digits |-> IF negative THEN MinInt64Digits ELSE MaxInt64Digits]

\* strconv.Atoi: an optional sign followed by one or more decimal digits
\* that denote a number in the range of int; err is nil then and val the
\* number. The characters are read left to right: digits that run past the
\* range of uint64 are a range error whatever follows them, any other
\* character that is not a digit is a syntax error, and a number of digits
\* only that lies beyond the range of int is a range error. A syntax error
\* comes with val = 0, a range error with the bound of int on that side.
Atoi(s) ==
    LET signed == Len(s) > 0 /\ s[1] \in {"+", "-"}
        negative == Len(s) > 0 /\ s[1] = "-"
        digits == IF signed THEN Tail(s) ELSE s
        prefix == DigitPrefix(digits)
        err == IF Len(digits) = 0 THEN "syntax"
               ELSE IF Exceeds(prefix, MaxUint64Digits) THEN "range"
               ELSE IF Len(prefix) < Len(digits) THEN "syntax"
               ELSE IF ~InRange(negative, digits) THEN "range"
               ELSE "nil"
    IN  [ok |-> err = "nil",
         err |-> err,
         val |-> IF err = "syntax" THEN 0
                 ELSE IF err = "range" THEN Saturated(negative)
                 ELSE IF negative THEN 0 - DigitsValue(digits)
                 ELSE DigitsValue(digits)]

\* c.String(code, text)
GinString(code, text) ==
    [status |-> code, contentType |-> "text/plain; charset=utf-8",
     text |-> text, body |-> NilDocument, encoding |-> "text",
     panicked |-> FALSE]

\* c.JSON(code, obj)
GinJSON(code, obj) ==
    [status |-> code, contentType |-> "application/json; charset=utf-8",
     text |-> "", body |-> obj, encoding |-> "json", panicked |-> FALSE]

GinYAMLTypedAsJSON(code, contentType, obj) ==
    [status |-> code, contentType |-> "application/json; charset=utf-8",
     text |-> "", body |-> obj, encoding |-> "yaml", panicked |-> FALSE]

\* yaml.Marshal(obj) and c.Data(code, contentType, yamlData); the marshal of
\* these maps of strings, numbers and lists does not fail.
GinYAML(code, contentType, obj) ==
    [status |-> code, contentType |-> contentType, text |-> "", body |-> obj,
     encoding |-> "yaml", panicked |-> FALSE]

\* A panic in a handler: the Recovery middleware of gin.Default() aborts the
\* request with status 500 and no body.
GinRecovered ==
    [status |-> 500, contentType |-> "", text |-> "", body |-> NilDocument,
     encoding |-> "none", panicked |-> TRUE]

\* The completed exchange of one request: what was asked, the upstream calls
\* made, the page number handed to fetchDatasets or fetchDatasetsResponse
\* (0 when neither was called), what upstream delivered, and the response
\* written.
Exchange(h, pageStr, uuid, format, calls, pageNo, o, rsp) ==
    [req |-> [handler |-> h, page |-> pageStr, uuid |-> uuid, format |-> format],
     calls |-> calls,
     pageNo |-> pageNo,
     upstream |-> IF calls = 0 THEN NoOutcome ELSE o,
     rsp |-> rsp]

\* fetchDatasetsResponse: (nil, err) on a transport or decode error,
\* (nil, nil) when Items is empty, else (&data, nil).
fetchDatasetsResponse(p, o) ==
    IF o.kind # "ok" THEN [isNil |-> TRUE, err |-> o.kind, resp |-> o]
    ELSE IF Len(o.Items) = 0 THEN [isNil |-> TRUE, err |-> "nil", resp |-> o]
    ELSE [isNil |-> FALSE, err |-> "nil", resp |-> o]

searchDatasetByIDNoStatusCheck(id, o) ==
    IF o.kind \in {"ok", "status404"} THEN [isNil |-> FALSE, ds |-> o.Dataset]
    ELSE [isNil |-> TRUE, ds |-> o.Dataset]

\* searchDatasetByID: nil on a transport error, on HTTP 404 and on a decode
\* error, else the decoded dataset.
searchDatasetByID(id, o) ==
    IF o.kind = "ok" THEN [isNil |-> FALSE, ds |-> o.Dataset]
    ELSE [isNil |-> TRUE, ds |-> o.Dataset]

\* float64(v) for 0 <= v < 2^54: exact below 2^53; from 2^53 on the float64
\* values are the multiples of 2, and an odd v goes to the neighbour whose
\* mantissa is even, the multiple of 4.
Float64(v) ==
    IF v.hi < Limb \div 2 \/ v.lo % 2 = 0 THEN v
    ELSE IF v.lo % 4 = 1 THEN [hi |-> v.hi, lo |-> v.lo - 1]
    ELSE Succ(v)

\* The number of float64 values per unit between k and k + 1 for an integer
\* k < 2^51: 2^(52-e) when 2^e <= k < 2^(e+1).  Below 2^49 the grid is
\* sixteenths or finer; tenths round to the same side of zero on every one
\* of those, and sixteen stands for them.
FracSteps(k) ==
    IF k.hi >= Limb \div 16 THEN 4
    ELSE IF k.hi >= Limb \div 32 THEN 8
    ELSE 16

\* x / float64(size) for an integer-valued x and a small size: the float64
\* nearest to the real quotient (ties to even), as int + num/den.
Float64Div(x, size) ==
    LET rest == (x.hi % size) * Limb + x.lo
        k == [hi |-> x.hi \div size, lo |-> rest \div size]
        r == rest % size
        d == FracSteps(k)
        n0 == (2 * r * d + size) \div (2 * size)
        n == IF (2 * r * d + size) % (2 * size) = 0 /\ n0 % 2 = 1
             THEN n0 - 1 ELSE n0
    IN  [int |-> k, num |-> n, den |-> d]

\* int(math.Ceil(q))
Ceil(q) == IF q.num = 0 THEN q.int ELSE Succ(q.int)

\* int(math.Ceil(float64(totalItems) / float64(pageSize)))
TotalPages(totalItems) ==
    Ceil(Float64Div(Float64(totalItems), pageSize))

EndpointsReversed(items, prefix) ==
    [i \in 1..Len(items) |->
        LET ds == items[Len(items) + 1 - i] IN
        [uuid |-> ds.ID,
         datasetName |-> ds.Shortname,
         originalUrl |-> ds.ApiUrl,
         url |-> BaseURL \o prefix \o ds.ID]]

\* The endpoint objects of a listing: one per item, in order.
Endpoints(items, prefix) ==
    [i \in 1..Len(items) |->
        [uuid |-> items[i].ID,
         datasetName |-> items[i].Shortname,
         originalUrl |-> items[i].ApiUrl,
         url |-> BaseURL \o prefix \o items[i].ID]]

\* if pageStr != "" { page, err = strconv.Atoi(pageStr); if err != nil ||
\* page < 1 { ...; return } }: the request is answered before any call.
PageRejected(pageStr) ==
    LET a == Atoi(pageStr) IN Len(pageStr) # 0 /\ ~(a.ok /\ a.val > 0)

\* DcatGinHandler: a page parameter that is present and not a positive
\* integer is answered 404 before any upstream call. calls is the number
\* of http.Get calls the request has made when the response is written.
DcatGinHandlerOut(pageStr, format, calls, o, t) ==
    LET h == "DcatGinHandler"
        rejected == PageRejected(pageStr)
        pageNo == IF Len(pageStr) # 0 THEN Atoi(pageStr).val ELSE 1
        r == fetchDatasetsResponse(pageNo, o)
    IN  IF rejected
        THEN Exchange(h, pageStr, "", format, calls, 0, o, GinString(404, "No data found"))
        ELSE IF r.err # "nil" \/ r.isNil \/ Len(r.resp.Items) = 0
        THEN Exchange(h, pageStr, "", format, calls, pageNo, o, GinString(404, "No data found"))
        ELSE LET output == ToDCAT(ConvertDatasets(r.resp.Items), t) IN
             IF format = "yaml"
             THEN Exchange(h, pageStr, "", format, calls, pageNo, o,
                           GinYAML(200, "text/plain; charset=utf-8", output))
             ELSE Exchange(h, pageStr, "", format, calls, pageNo, o, GinJSON(200, output))

\* ODPS30GinHandler: only err is tested after fetchDatasetsResponse, so the
\* (nil, nil) result is dereferenced at resp.TotalResults.
ODPS30GinHandlerOut(pageStr, format, calls, o) ==
    LET h == "ODPS30GinHandler"
        rejected == PageRejected(pageStr)
        pageNo == IF Len(pageStr) # 0 THEN Atoi(pageStr).val ELSE 1
        r == fetchDatasetsResponse(pageNo, o)
        totalItems == r.resp.TotalResults
        totalPages == TotalPages(totalItems)
        output == [isNil |-> FALSE,
                   current_page |-> r.resp.CurrentPage,
                   total_pages |-> totalPages,
                   totalRecord |-> totalItems,
                   endpoints |-> Endpoints(r.resp.Items, "odps30/")]
    IN  IF rejected
        THEN Exchange(h, pageStr, "", format, calls, 0, o, GinString(404, "No data found"))
        ELSE IF r.err # "nil"
        THEN Exchange(h, pageStr, "", format, calls, pageNo, o,
                      GinString(500, "Error fetching data"))
        ELSE IF r.isNil
        THEN Exchange(h, pageStr, "", format, calls, pageNo, o, GinRecovered)
        ELSE IF Less(totalPages, Int64(pageNo))
        THEN Exchange(h, pageStr, "", format, calls, pageNo, o, GinString(404, "No data found"))
        ELSE IF format = "json"
        THEN Exchange(h, pageStr, "", format, calls, pageNo, o, GinJSON(200, output))
        ELSE Exchange(h, pageStr, "", format, calls, pageNo, o,
                      GinYAML(200, "text/plain; charset=utf-8", output))

\* ODPS31GinHandler: a page parameter that is not a positive integer leaves
\* page at 1; every failure of fetchDatasetsResponse is answered 404.
ODPS31GinHandlerOut(pageStr, format, calls, o) ==
    LET h == "ODPS31GinHandler"
        a == Atoi(pageStr)
        pageNo == IF Len(pageStr) # 0 /\ a.ok /\ a.val > 0 THEN a.val ELSE 1
        r == fetchDatasetsResponse(pageNo, o)
        totalItems == r.resp.TotalResults
        totalPages == TotalPages(totalItems)
        output == [isNil |-> FALSE,
                   current_page |-> r.resp.CurrentPage,
                   total_pages |-> totalPages,
                   endpoints |-> Endpoints(r.resp.Items, "odps31/")]
    IN  IF r.err # "nil" \/ r.isNil \/ Len(r.resp.Items) = 0
        THEN Exchange(h, pageStr, "", format, calls, pageNo, o, GinString(404, "No data found"))
        ELSE IF format = "json"
        THEN Exchange(h, pageStr, "", format, calls, pageNo, o, GinJSON(200, output))
        ELSE Exchange(h, pageStr, "", format, calls, pageNo, o,
                      GinYAML(200, "text/plain; charset=utf-8", output))

\* ODPS30DetailGinHandler
ODPS30DetailGinHandlerOut(uuid, format, calls, o) ==
    LET h == "ODPS30DetailGinHandler"
        found == searchDatasetByID(uuid, o)
        output == ToODPS30(ConvertDatasets(<<found.ds>>))
    IN  IF uuid = ""
        THEN Exchange(h, <<>>, uuid, format, calls, 0, o, GinString(400, "Missing dataset ID"))
        ELSE IF found.isNil
        THEN Exchange(h, <<>>, uuid, format, calls, 0, o, GinString(404, "Dataset not found"))
        ELSE IF format = "json"
        THEN Exchange(h, <<>>, uuid, format, calls, 0, o, GinJSON(200, output))
        ELSE Exchange(h, <<>>, uuid, format, calls, 0, o,
                      GinYAML(200, "text/plain; charset=utf-8", output))

\* ODPS31DetailGinHandler
ODPS31DetailGinHandlerOut(uuid, format, calls, o) ==
    LET h == "ODPS31DetailGinHandler"
        found == searchDatasetByID(uuid, o)
        output == ToODPS31(ConvertDatasets(<<found.ds>>))
    IN  IF uuid = ""
        THEN Exchange(h, <<>>, uuid, format, calls, 0, o, GinString(400, "Missing dataset ID"))
        ELSE IF found.isNil
        THEN Exchange(h, <<>>, uuid, format, calls, 0, o, GinString(404, "Dataset not found"))
        ELSE IF format = "json"
        THEN Exchange(h, <<>>, uuid, format, calls, 0, o, GinJSON(200, output))
        ELSE Exchange(h, <<>>, uuid, format, calls, 0, o,
                      GinYAML(200, "text/plain; charset=utf-8", output))

\* ODPSGinHandler after fetchDatasets(1) has returned (ds, err); the page
\* and format parameters of the request are never read.
ODPSGinHandlerOut(pageStr, format, r, calls, o) ==
    LET h == "ODPSGinHandler" IN
    IF r.err # "nil" \/ Len(r.data) = 0
    THEN Exchange(h, pageStr, "", format, calls, 1, o,
                  GinString(404, "No data found"))
    ELSE Exchange(h, pageStr, "", format, calls, 1, o,
                  GinJSON(200, ToODPS(ConvertDatasets(r.data))))

\* A request that has arrived and has no response yet.
PendingRequest(h, pageStr, uuid, format) ==
    [status |-> 0,
     req |-> [handler |-> h, page |-> pageStr, uuid |-> uuid, format |-> format]]

\* The handler answers from the request alone: no upstream call is made.
Answer(w, exchange) ==
    /\ pc[w] = "idle"
    /\ pc' = [pc EXCEPT ![w] = "done"]
    /\ handler' = [handler EXCEPT ![w] = exchange.req.handler]
    /\ response' = [response EXCEPT ![w] = exchange]
    /\ UNCHANGED <<service, now, datasetCache, cacheMutex, page, data, item, ret,
                   upstreamCalls, hist>>

\* The handler has read the request and waits in http.Get inside
\* fetchDatasetsResponse or searchDatasetByID; the cache is not touched.
Await(w, h, pageStr, uuid, format) ==
    /\ pc[w] = "idle"
    /\ pc' = [pc EXCEPT ![w] = "await"]
    /\ handler' = [handler EXCEPT ![w] = h]
    /\ response' = [response EXCEPT ![w] = PendingRequest(h, pageStr, uuid, format)]
    /\ UNCHANGED <<service, now, datasetCache, cacheMutex, page, data, item, ret,
                   upstreamCalls, hist>>

\* The first step of handler h: the answer at once when the handler returns
\* before its upstream call (early), else the wait for upstream.
Arrive(w, h, pageStr, uuid, format, early, exchange) ==
    /\ pc[w] = "idle"
    /\ IF early
       THEN Answer(w, exchange)
       ELSE Await(w, h, pageStr, uuid, format)

\* What the handlers have from upstream before the call is made: nothing.
\* The answer a handler gives at once does not read it.
NoEnvelope ==
    [kind |-> "transport", TotalResults |-> Int64(0), CurrentPage |-> 0,
     Items |-> <<>>]

NoDataset == [kind |-> "transport", Dataset |-> dsA]

\* http.Get has returned, which makes one more upstream call of the
\* request; the rest of the handler runs and the response is written.
Respond(w, exchange) ==
    /\ pc[w] = "await"
    /\ handler[w] = exchange.req.handler
    /\ pc' = [pc EXCEPT ![w] = "done"]
    /\ upstreamCalls' = [upstreamCalls EXCEPT ![w] = @ + 1]
    /\ response' = [response EXCEPT ![w] = exchange]
    /\ UNCHANGED <<service, now, datasetCache, cacheMutex, handler, page, data, item,
                   ret, hist>>

DcatGinHandler(w) ==
    \/ \E pageStr \in PageStrings, format \in Formats :
          Arrive(w, "DcatGinHandler", pageStr, "", format, PageRejected(pageStr),
                 DcatGinHandlerOut(pageStr, format, upstreamCalls[w], NoEnvelope, now))
    \/ /\ pc[w] = "await"
       /\ handler[w] = "DcatGinHandler"
       /\ \E o \in ResponseOutcomes :
          Respond(w, DcatGinHandlerOut(response[w].req.page, response[w].req.format,
                                       upstreamCalls[w] + 1, o, now))

ODPS30GinHandler(w) ==
    \/ \E pageStr \in PageStrings, format \in Formats :
          Arrive(w, "ODPS30GinHandler", pageStr, "", format, PageRejected(pageStr),
                 ODPS30GinHandlerOut(pageStr, format, upstreamCalls[w], NoEnvelope))
    \/ /\ pc[w] = "await"
       /\ handler[w] = "ODPS30GinHandler"
       /\ \E o \in ResponseOutcomes :
          Respond(w, ODPS30GinHandlerOut(response[w].req.page, response[w].req.format,
                                         upstreamCalls[w] + 1, o))

\* ODPS31GinHandler has no return before fetchDatasetsResponse.
ODPS31GinHandler(w) ==
    \/ \E pageStr \in PageStrings, format \in Formats :
          Arrive(w, "ODPS31GinHandler", pageStr, "", format, FALSE,
                 ODPS31GinHandlerOut(pageStr, format, upstreamCalls[w], NoEnvelope))
    \/ /\ pc[w] = "await"
       /\ handler[w] = "ODPS31GinHandler"
       /\ \E o \in ResponseOutcomes :
          Respond(w, ODPS31GinHandlerOut(response[w].req.page, response[w].req.format,
                                         upstreamCalls[w] + 1, o))

ODPS30DetailGinHandler(w) ==
    \/ \E uuid \in UUIDs, format \in Formats :
          Arrive(w, "ODPS30DetailGinHandler", <<>>, uuid, format, uuid = "",
                 ODPS30DetailGinHandlerOut(uuid, format, upstreamCalls[w], NoDataset))
    \/ /\ pc[w] = "await"
       /\ handler[w] = "ODPS30DetailGinHandler"
       /\ \E o \in DetailOutcomes :
          Respond(w, ODPS30DetailGinHandlerOut(response[w].req.uuid,
                                               response[w].req.format,
                                               upstreamCalls[w] + 1, o))

ODPS31DetailGinHandler(w) ==
    \/ \E uuid \in UUIDs, format \in Formats :
          Arrive(w, "ODPS31DetailGinHandler", <<>>, uuid, format, uuid = "",
                 ODPS31DetailGinHandlerOut(uuid, format, upstreamCalls[w], NoDataset))
    \/ /\ pc[w] = "await"
       /\ handler[w] = "ODPS31DetailGinHandler"
       /\ \E o \in DetailOutcomes :
          Respond(w, ODPS31DetailGinHandlerOut(response[w].req.uuid,
                                               response[w].req.format,
                                               upstreamCalls[w] + 1, o))

\* c.HTML(code, name, obj): the template name rendered with obj, sent as
\* text/html.
GinHTML(code, name, obj) ==
    [status |-> code, contentType |-> "text/html; charset=utf-8", text |-> "",
     body |-> [isNil |-> FALSE, template |-> name, data |-> obj],
     encoding |-> "html", panicked |-> FALSE]

\* IndexHandler: the index page that lists the endpoint paths.
IndexHandlerOut(format, calls) ==
    Exchange("IndexHandler", <<>>, "", format, calls, 0, NoEnvelope,
             GinHTML(200, "index.html",
                     [endpoints |-> <<"/dcat", "/odps", "/odps30", "/odps31">>]))

\* HealthcheckHandler: c.String(http.StatusOK, "OK")
HealthcheckHandlerOut(format, calls) ==
    Exchange("HealthcheckHandler", <<>>, "", format, calls, 0, NoEnvelope,
             GinString(200, "OK"))

\* GET /: no parameter is read and no upstream call is made.
IndexHandler(w) ==
    \E format \in Formats : Answer(w, IndexHandlerOut(format, upstreamCalls[w]))

\* GET /healthcheck: no parameter is read and no upstream call is made.
HealthcheckHandler(w) ==
    \E format \in Formats : Answer(w, HealthcheckHandlerOut(format, upstreamCalls[w]))

\* ODPSGinHandler: ds, err := fetchDatasets(1)
ODPSGinHandler(w) ==
    /\ pc[w] = "idle"
    /\ \E pageStr \in PageStrings, format \in Formats :
         response' = [response EXCEPT ![w] =
                         PendingRequest("ODPSGinHandler", pageStr, "", format)]
    /\ handler' = [handler EXCEPT ![w] = "ODPSGinHandler"]
    /\ page' = [page EXCEPT ![w] = 1]
    /\ pc' = [pc EXCEPT ![w] = "rlock"]
    /\ UNCHANGED <<service, now, datasetCache, cacheMutex, data, item, ret,
                   upstreamCalls, hist>>

\* ODPSGinHandler: the response, once fetchDatasets has returned.
ODPSGinRespond(w) ==
    /\ pc[w] = "ret"
    /\ handler[w] = "ODPSGinHandler"
    /\ response' = [response EXCEPT ![w] =
                        ODPSGinHandlerOut(response[w].req.page,
                                          response[w].req.format, ret[w],
                                          upstreamCalls[w], data[w])]
    /\ pc' = [pc EXCEPT ![w] = "done"]
    /\ UNCHANGED <<service, now, datasetCache, cacheMutex, handler, page, data, item,
                   ret, upstreamCalls, hist>>

\* The response has been written; the goroutine of the request ends.
Finish(w) ==
    /\ pc[w] = "done"
    /\ pc' = [pc EXCEPT ![w] = "idle"]
    /\ handler' = [handler EXCEPT ![w] = "none"]
    /\ page' = [page EXCEPT ![w] = 0]
    /\ data' = [data EXCEPT ![w] = NoData]
    /\ item' = [item EXCEPT ![w] = NoItem]
    /\ ret' = [ret EXCEPT ![w] = NoRet]
    /\ upstreamCalls' = [upstreamCalls EXCEPT ![w] = 0]
    /\ response' = [response EXCEPT ![w] = NoResponse]
    /\ UNCHANGED <<service, now, datasetCache, cacheMutex, hist>>

\* The gin service is followed one request at a time.
GinWorkers == {"w1"}

NextGin ==
    \/ \E w \in GinWorkers : IndexHandler(w)
    \/ \E w \in GinWorkers : HealthcheckHandler(w)
    \/ \E w \in GinWorkers : DcatGinHandler(w)
    \/ \E w \in GinWorkers : ODPSGinHandler(w)
    \/ \E w \in GinWorkers : fetchDatasets(w)
    \/ \E w \in GinWorkers : ODPSGinRespond(w)
    \/ \E w \in GinWorkers : ODPS30GinHandler(w)
    \/ \E w \in GinWorkers : ODPS30DetailGinHandler(w)
    \/ \E w \in GinWorkers : ODPS31GinHandler(w)
    \/ \E w \in GinWorkers : ODPS31DetailGinHandler(w)
    \/ \E w \in GinWorkers : Finish(w)
    \/ Tick

InitGin == Started("gin")

SpecGin == InitGin /\ [][NextGin]_vars

----------------------------------------------------------------------------
(* The net/http service (main.go): four list handlers over fetchDatasets *)

\* The values of the page query parameter the net/http service is sent.
LegacyPageStrings ==
    {<<>>, <<"0">>, <<"-", "1">>, <<"a", "b", "c">>, <<"2">>, OutOfRangePage}

\* getDefaultDatasets of main.go: the single placeholder dataset.
getDefaultDatasets ==
    <<[ID |-> "default", Self |-> "https://example.org/default",
       Type |-> "unknown", Shortname |-> "Default Dataset",
       ApiUrl |-> "https://example.org/api/default"]>>

getPageNumberUnchecked(pageStr) ==
    IF Len(pageStr) = 0 THEN 1
    ELSE IF ~Atoi(pageStr).ok THEN 1 ELSE Atoi(pageStr).val

\* getPageNumber of main.go: 1 unless the parameter is an integer >= 1.
getPageNumber(pageStr) ==
    IF Len(pageStr) = 0 THEN 1
    ELSE IF ~Atoi(pageStr).ok \/ Atoi(pageStr).val < 1 THEN 1
    ELSE Atoi(pageStr).val

SubstituteDefaultOnErrorOnly(r) ==
    IF r.err # "nil" THEN getDefaultDatasets ELSE r.data

\* if err != nil || len(datasets) == 0 { datasets = getDefaultDatasets() }
SubstituteDefault(r) ==
    IF r.err # "nil" \/ Len(r.data) = 0 THEN getDefaultDatasets ELSE r.data

\* w.Header().Set("Content-Type", contentType) and w.Write(encoded): the
\* status is 200; the marshal of these maps does not fail.
HttpWrite(contentType, encoding, obj) ==
    [status |-> 200, contentType |-> contentType, text |-> "", body |-> obj,
     encoding |-> encoding, panicked |-> FALSE]

\* The encoding of the handlers that answer JSON unless format=yaml
\* (yamlWhen = "yaml") or YAML unless format=json (yamlWhen = "default").
HttpEncode(format, yamlWhen, obj) ==
    IF (yamlWhen = "yaml" /\ format = "yaml") \/ (yamlWhen = "default" /\ format # "json")
    THEN HttpWrite("text/plain; charset=utf-8", "yaml", obj)
    ELSE HttpWrite("application/json", "json", obj)

\* The handlers of main.go after fetchDatasets(page) has returned r.
dcatHandlerOut(pageStr, format, r, calls, o) ==
    Exchange("dcatHandler", pageStr, "", format, calls, getPageNumber(pageStr), o,
             HttpEncode(format, "yaml", toDCAT(SubstituteDefault(r))))

odpsHandlerOut(pageStr, format, r, calls, o) ==
    Exchange("odpsHandler", pageStr, "", format, calls, getPageNumber(pageStr), o,
             HttpWrite("application/json", "json", toODPS(SubstituteDefault(r))))

odps31HandlerOut(pageStr, format, r, calls, o, categories) ==
    Exchange("odps31Handler", pageStr, "", format, calls, getPageNumber(pageStr), o,
             HttpEncode(format, "default",
                        toODPS31(SubstituteDefault(r), categories)))

odps30HandlerOut(pageStr, format, r, calls, o, categories) ==
    Exchange("odps30Handler", pageStr, "", format, calls, getPageNumber(pageStr), o,
             HttpEncode(format, "default",
                        toODPS30(SubstituteDefault(r), categories)))

\* A handler of main.go starts: page := getPageNumber(r) and the call of
\* fetchDatasets(page).
Serve(w, h) ==
    /\ pc[w] = "idle"
    /\ \E pageStr \in LegacyPageStrings, format \in Formats :
         /\ response' = [response EXCEPT ![w] = PendingRequest(h, pageStr, "", format)]
         /\ page' = [page EXCEPT ![w] = getPageNumber(pageStr)]
    /\ handler' = [handler EXCEPT ![w] = h]
    /\ pc' = [pc EXCEPT ![w] = "rlock"]
    /\ UNCHANGED <<service, now, datasetCache, cacheMutex, data, item, ret,
                   upstreamCalls, hist>>

dcatHandler(w) == Serve(w, "dcatHandler")

odpsHandler(w) == Serve(w, "odpsHandler")

odps31Handler(w) == Serve(w, "odps31Handler")

odps30Handler(w) == Serve(w, "odps30Handler")

LegacyHandlers == {"dcatHandler", "odpsHandler", "odps31Handler", "odps30Handler"}

\* The rest of the handler, once fetchDatasets has returned: the default
\* datasets where needed, the transformer and the response.
WriteResponse(w) ==
    /\ pc[w] = "ret"
    /\ handler[w] \in LegacyHandlers
    /\ LET req == response[w].req
           r == ret[w]
       IN  \E categories \in MapOrders(CategoriesSet(SubstituteDefault(r))) :
             response' = [response EXCEPT ![w] =
                CASE handler[w] = "dcatHandler" ->
                        dcatHandlerOut(req.page, req.format, r, upstreamCalls[w], data[w])
                  [] handler[w] = "odpsHandler" ->
                        odpsHandlerOut(req.page, req.format, r, upstreamCalls[w], data[w])
                  [] handler[w] = "odps31Handler" ->
                        odps31HandlerOut(req.page, req.format, r, upstreamCalls[w],
                                         data[w], categories)
                  [] handler[w] = "odps30Handler" ->
                        odps30HandlerOut(req.page, req.format, r, upstreamCalls[w],
                                         data[w], categories)]
    /\ pc' = [pc EXCEPT ![w] = "done"]
    /\ UNCHANGED <<service, now, datasetCache, cacheMutex, handler, page, data, item,
                   ret, upstreamCalls, hist>>

\* The net/http service is followed one request at a time.
NextLegacy ==
    \/ \E w \in GinWorkers : dcatHandler(w)
    \/ \E w \in GinWorkers : odpsHandler(w)
    \/ \E w \in GinWorkers : odps31Handler(w)
    \/ \E w \in GinWorkers : odps30Handler(w)
    \/ \E w \in GinWorkers : fetchDatasets(w)
    \/ \E w \in GinWorkers : WriteResponse(w)
    \/ \E w \in GinWorkers : Finish(w)
    \/ Tick

SpecLegacy == Init /\ [][NextLegacy]_vars

----------------------------------------------------------------------------
(* Either service *)

\* One of the two services is started and serves its requests.
InitServices == \E s \in Services : Started(s)

NextServices ==
    \/ service = "gin" /\ NextGin
    \/ service = "net/http" /\ NextLegacy

SpecServices == InitServices /\ [][NextServices]_vars

----------------------------------------------------------------------------
(* The transformers applied to arbitrary dataset lists *)

\* The longest dataset list handed to a transformer.
MaxLen == 2

\* The dataset lists of length 0..MaxLen over the two records.
DatasetLists == UNION {[1..n -> {dsA, dsB}] : n \in 0..MaxLen}

\* The result of one transformer call: which transformer, the list it was
\* given and the document it returned.
Application(t, input, doc) ==
    [status |-> 0, transformer |-> t, input |-> input, doc |-> doc]

\* A caller holding the list data[w].Items calls a transformer; the call
\* returns the document and touches nothing else.
Apply(w, t, doc) ==
    /\ pc[w] \in {"idle", "done"}
    /\ pc' = [pc EXCEPT ![w] = "done"]
    /\ response' = [response EXCEPT ![w] = Application(t, data[w].Items, doc)]
    /\ UNCHANGED <<service, now, datasetCache, cacheMutex, handler, page, data, item,
                   ret, upstreamCalls, hist>>

CallToDCAT(w) == Apply(w, "ToDCAT", ToDCAT(data[w].Items, now))

CallToODPS(w) == Apply(w, "ToODPS", ToODPS(data[w].Items))

CallToODPS30(w) == Apply(w, "ToODPS30", ToODPS30(data[w].Items))

CallToODPS31(w) == Apply(w, "ToODPS31", ToODPS31(data[w].Items))

CalltoDCAT(w) == Apply(w, "toDCAT", toDCAT(data[w].Items))

CalltoODPS(w) == Apply(w, "toODPS", toODPS(data[w].Items))

CalltoODPS30(w) ==
    \E categories \in MapOrders(CategoriesSet(data[w].Items)) :
        Apply(w, "toODPS30", toODPS30(data[w].Items, categories))

CalltoODPS31(w) ==
    \E categories \in MapOrders(CategoriesSet(data[w].Items)) :
        Apply(w, "toODPS31", toODPS31(data[w].Items, categories))

\* The caller holds any list; the page cache is empty or holds page 1.
InitTransform ==
    /\ service = "gin"
    /\ now = ZeroTime + 1
    /\ datasetCache \in
        {<<>>, [p \in {1} |-> [data |-> <<dsA>>, expiration |-> ZeroTime + 1 + TTL]]}
    /\ cacheMutex = [readers |-> 0, locked |-> FALSE]
    /\ pc = [w \in Workers |-> "idle"]
    /\ handler = [w \in Workers |-> "none"]
    /\ page = [w \in Workers |-> 0]
    /\ \E l \in DatasetLists :
         data = [w \in Workers |->
                    IF w \in GinWorkers THEN [kind |-> "ok", Items |-> l]
                    ELSE NoData]
    /\ item = [w \in Workers |-> NoItem]
    /\ ret = [w \in Workers |-> NoRet]
    /\ upstreamCalls = [w \in Workers |-> 0]
    /\ response = [w \in Workers |-> NoResponse]
    /\ peakReaders = 0
    /\ lastHit = [p \in Pages |-> <<>>]

NextTransform ==
    \/ \E w \in GinWorkers : CallToDCAT(w)
    \/ \E w \in GinWorkers : CallToODPS(w)
    \/ \E w \in GinWorkers : CallToODPS30(w)
    \/ \E w \in GinWorkers : CallToODPS31(w)
    \/ \E w \in GinWorkers : CalltoDCAT(w)
    \/ \E w \in GinWorkers : CalltoODPS(w)
    \/ \E w \in GinWorkers : CalltoODPS30(w)
    \/ \E w \in GinWorkers : CalltoODPS31(w)
    \/ Tick

SpecTransform == InitTransform /\ [][NextTransform]_vars

----------------------------------------------------------------------------
(* The page cache under concurrent requests: properties of Spec *)

\* The workers inside the read critical section / the write critical section.
InLookup == {w \in Workers : pc[w] = "rcs"}
InStore == {w \in Workers : pc[w] \in {"wcs", "wcs2", "wunlock"}}

\* The entry of page p is fresh: present and the clock strictly before its
\* expiration.
Fresh(p) == p \in DOMAIN datasetCache /\ now < datasetCache[p].expiration

\* C1: the lookup step of fetchDatasets(p) is a hit (it returns the stored
\* list with a nil error and the request has made no upstream call) exactly
\* when p has an entry and the clock is strictly before its expiration;
\* otherwise (no entry, or now >= expiration) nothing is returned by the
\* lookup and the request goes on to the upstream call.
C1_LookupHitIffFresh ==
    [][\A w \in Workers :
         (pc[w] = "rcs" /\ pc'[w] # "rcs") =>
            IF Fresh(page[w])
            THEN /\ pc'[w] = "ret"
                 /\ ret'[w] = [data |-> datasetCache[page[w]].data,
                               isNil |-> FALSE, err |-> "nil"]
                 /\ upstreamCalls'[w] = 0
            ELSE /\ pc'[w] = "http"
                 /\ ret'[w] = NoRet]_vars

\* C1 witness: one request has returned by a hit (no upstream call) the list
\* of a fresh entry, while another request, whose page has an entry that
\* expired at this very minute, is past its lookup and on its way upstream.
C1_Witness ==
    \E w, v \in Workers :
        /\ pc[w] = "ret" /\ upstreamCalls[w] = 0 /\ Fresh(page[w])
        /\ ret[w].data = datasetCache[page[w]].data
        /\ pc[v] = "http" /\ upstreamCalls[v] = 0
        /\ page[v] \in DOMAIN datasetCache
        /\ datasetCache[page[v]].expiration = now

\* C2: a fetch that decoded at least one item never returns without storing;
\* the cacheItem it builds holds the fetched items and the clock reading of
\* the store plus 5 minutes; when the assignment completes the entry of the
\* page is exactly that item, whatever was there before; and the store
\* touches no other key.
C2_StoreOverwrites ==
    [][\A w \in Workers :
         /\ (pc[w] = "http" /\ pc'[w] # "http" /\ Len(data'[w].Items) > 0
               /\ data'[w].kind = "ok")
              => pc'[w] = "wlock"
         /\ (pc[w] = "wcs" /\ pc'[w] # "wcs")
              => item'[w] = [data |-> data[w].Items, expiration |-> now + 5]
         /\ (pc[w] = "wcs2" /\ pc'[w] # "wcs2")
              => /\ page[w] \in DOMAIN datasetCache'
                 /\ datasetCache'[page[w]] = item[w]
                 /\ item[w].data = data[w].Items
         /\ (pc[w] \in {"wcs", "wcs2"} /\ pc'[w] # pc[w])
              => /\ DOMAIN datasetCache' = DOMAIN datasetCache \cup {page[w]}
                 /\ \A q \in DOMAIN datasetCache \ {page[w]} :
                        datasetCache'[q] = datasetCache[q]]_vars

\* C2 witness: two requests fetched different lists for the same page and
\* both stored; the entry is the later store's item (the earlier list is
\* gone, nothing is merged) and the other page still has its entry.
C2_Witness ==
    \E w, v \in Workers :
        /\ w # v /\ page[w] = page[v]
        /\ pc[w] = "ret" /\ upstreamCalls[w] = 1 /\ ~ret[w].isNil
        /\ pc[v] = "ret" /\ upstreamCalls[v] = 1 /\ ~ret[v].isNil
        /\ ret[w].data # ret[v].data
        /\ datasetCache[page[w]] = item[w]
        /\ item[w].expiration > item[v].expiration
        /\ DOMAIN datasetCache = Pages

\* The entry of page p is half written: a store to p has written the list
\* and not yet the expiration.
Torn(p) ==
    \E w \in Workers :
        pc[w] = "wcs2" /\ page[w] = p /\ datasetCache[p] # item[w]

\* C3: a worker inside the store critical section is alone: no other worker
\* is inside the store or the lookup critical section; and no worker inside
\* the lookup critical section faces a half-written entry for its page.
C3_ReaderWriterExclusion ==
    /\ Cardinality(InStore) <= 1
    /\ InStore # {} => InLookup = {}
    /\ \A w \in InLookup : ~Torn(page[w])
    /\ cacheMutex.locked <=> InStore # {}
    /\ cacheMutex.readers = Cardinality(InLookup)

\* C3 witness: a store is half done (the entry of its page is torn) while the
\* other worker waits at RLock for the same page, and earlier both workers
\* were inside the lookup critical section together.
C3_Witness ==
    \E w, v \in Workers :
        /\ pc[w] = "wcs2" /\ Torn(page[w])
        /\ pc[v] = "rlock" /\ page[v] = page[w]
        /\ peakReaders = Cardinality(Workers)

\* C4: a lookup of page p that happens while the entry is fresh returns
\* without any upstream call, and the list it returns is the list the
\* previous hit on p returned, provided no store to p happened in between.
C4_HitsIdempotent ==
    [][\A w \in Workers :
         (pc[w] = "rcs" /\ pc'[w] # "rcs" /\ Fresh(page[w])) =>
            /\ pc'[w] = "ret"
            /\ upstreamCalls'[w] = 0
            /\ ret'[w].err = "nil"
            /\ lastHit[page[w]] # <<>> => ret'[w].data = lastHit[page[w]]]_vars

\* C4 witness: both workers have returned by a hit on the same page, with no
\* store to it since the first of the two hits, and hold the same list.
C4_Witness ==
    \E w, v \in Workers :
        /\ w # v /\ page[w] = page[v]
        /\ pc[w] = "ret" /\ upstreamCalls[w] = 0
        /\ pc[v] = "ret" /\ upstreamCalls[v] = 0
        /\ lastHit[page[w]] # <<>>
        /\ ret[w].data = lastHit[page[w]] /\ ret[v].data = lastHit[page[w]]

\* C5: when upstream answers with an empty item list, fetchDatasets returns
\* (nil, nil) at once and the cache is left as it was; and a lookup that
\* finds no fresh entry always leads to an upstream call of its own.
C5_NoNegativeCaching ==
    [][\A w \in Workers :
         /\ (pc[w] = "http" /\ pc'[w] # "http" /\ data'[w].kind = "ok"
               /\ Len(data'[w].Items) = 0)
              => /\ pc'[w] = "ret"
                 /\ ret'[w] = [data |-> <<>>, isNil |-> TRUE, err |-> "nil"]
                 /\ datasetCache' = datasetCache
         /\ (pc[w] = "rcs" /\ pc'[w] # "rcs" /\ ~Fresh(page[w]))
              => pc'[w] = "http"
         /\ (pc[w] = "http" /\ pc'[w] # "http")
              => upstreamCalls'[w] = upstreamCalls[w] + 1]_vars

\* C5 witness: a request got the empty answer and returned no data, its page
\* has no entry, and a later request for the same page is going upstream.
C5_Witness ==
    \E w, v \in Workers :
        /\ pc[w] = "ret" /\ data[w].kind = "ok" /\ Len(data[w].Items) = 0
        /\ ret[w].isNil /\ ret[w].err = "nil"
        /\ page[w] \notin DOMAIN datasetCache
        /\ pc[v] = "http" /\ page[v] = page[w]

----------------------------------------------------------------------------
(* The gin service: properties of SpecGin *)

\* The exchange a request of w has completed.
Done(w) == pc[w] = "done"

PagedListHandlers == {"DcatGinHandler", "ODPS30GinHandler", "ODPS31GinHandler"}

ListHandlers == PagedListHandlers \cup {"ODPSGinHandler"}

\* The page values that are present and are not a positive integer.
NotPositivePages == {<<"0">>, <<"-", "1">>, <<"a", "b", "c">>}

\* The page values that are present and are a positive integer.
PositivePages == {<<"2">>, <<"+", "3">>}

UpstreamEmpty(x) == x.upstream.kind = "ok" /\ Len(x.upstream.Items) = 0

UpstreamFailed(x) == x.upstream.kind \in {"transport", "decode"}

\* C6: on DCAT, ODPS v3.0 list and ODPS v3.1 list, a request whose page value
\* is 0, negative or non-numeric is answered not-found (404) and no upstream
\* call is made for it.
C6_InvalidPageNotFoundNoCall ==
    \A w \in GinWorkers :
        (/\ Done(w)
         /\ response[w].req.handler \in PagedListHandlers
         /\ response[w].req.page \in NotPositivePages)
        => (/\ response[w].rsp.status = 404
            /\ response[w].calls = 0)

\* C7: on every paginated list endpoint, a well-formed request for a page
\* past the last one (upstream answers without error and with an empty item
\* list) ends with 404 "No data found", never with an internal error or a
\* panic of the handler.
C7_PastLastPageNotFound ==
    \A w \in GinWorkers :
        (/\ Done(w)
         /\ response[w].req.handler \in PagedListHandlers
         /\ response[w].req.page \in PositivePages
         /\ UpstreamEmpty(response[w]))
        => (/\ response[w].rsp.status = 404
            /\ response[w].rsp.text = "No data found"
            /\ ~response[w].rsp.panicked)

\* C8: a valid upstream response with zero items is answered 404 by every
\* list handler of the gin service.
C8_UpstreamEmptyNotFound ==
    \A w \in GinWorkers :
        (/\ Done(w)
         /\ response[w].req.handler \in ListHandlers
         /\ UpstreamEmpty(response[w]))
        => response[w].rsp.status = 404

\* C9: a transport failure or a decode failure of the upstream call is
\* answered as an internal error (500), not as not-found, on every list and
\* detail endpoint of the gin service.
C9_UpstreamFailureInternalError ==
    \A w \in GinWorkers :
        (Done(w) /\ UpstreamFailed(response[w]))
        => (/\ response[w].rsp.status = 500
            /\ response[w].rsp.status # 404)

\* C10: the total_pages of a listing is ceil(TotalResults / 10), the least
\* number of pages of ten that hold TotalResults items: 0 for 0 items, 3 for
\* 25 items.
C10_TotalPagesIsCeiling ==
    \A w \in GinWorkers :
        (/\ Done(w)
         /\ response[w].req.handler \in {"ODPS30GinHandler", "ODPS31GinHandler"}
         /\ response[w].rsp.status = 200)
        => LET total == response[w].upstream.TotalResults
               reported == response[w].rsp.body.total_pages
           IN  /\ total = Int64(0) => reported = Int64(0)
               /\ total = Int64(25) => reported = Int64(3)
               /\ total # Int64(0) =>
                    /\ ~Less(Times(reported, 10), total)
                    /\ reported # Int64(0)
                    /\ Less(Times(Pred(reported), 10), total)

DetailHandlers == {"ODPS30DetailGinHandler", "ODPS31DetailGinHandler"}

\* The document a detail handler writes for the fetched dataset ds, entry
\* by entry: the schema of the handler's transformer, the product entries
\* taken from ds, and where the two transformers differ (v3.0 builds its
\* links from ApiUrl, v3.1 from Self and adds the details and the dates).
IsProductOf(doc, h, ds) ==
    /\ ~doc.isNil
    /\ doc.product.en.productID = ds.ID
    /\ doc.product.en.name = ds.Shortname
    /\ doc.product.en.type = ds.Type
    /\ doc.product.en.logoURL = ds.Self
    /\ doc.product.en.categories = ds.Category
    /\ doc.product.en.description = ds.ApiDescription.en
    /\ Len(doc.product.en.useCases) = 1
    /\ doc.product.en.useCases[1].useCase.useCaseURL = ds.ApiUrl \o "/usecase/insights"
    /\ IF h = "ODPS30DetailGinHandler"
       THEN /\ doc.schema = "https://opendataproducts.org/v3.0/schema/odps.yaml"
            /\ doc.product.en.tags = ds.ODHTags
            /\ doc.dataOps.schemaLocationURL = ds.ApiUrl \o "/schema"
            /\ doc.dataHolder.URL = ds.Self
            /\ doc.support.documentationURL = ds.SwaggerUrl
            /\ "details" \notin DOMAIN doc
       ELSE /\ doc.schema = "https://opendataproducts.org/v3.1/schema/odps.yaml"
            /\ doc.product.dataOps.schemaLocationURL = ds.Self \o "/schema"
            /\ doc.product.dataHolder.URL = ds.Self
            /\ doc.product.support.documentationURL = ds.SwaggerUrl
            /\ doc.details.summary = ds.Shortname
            /\ doc.details.metadata = ds.Meta
            /\ doc.issued = ds.FirstImport
            /\ doc.modified = ds.LastChange

UpstreamHandlers == ListHandlers \cup DetailHandlers \cup LegacyHandlers

\* C12: in both services every request issues at most one upstream HTTP
\* call, and an upstream failure is terminal: after a failed call the
\* request is at its return or has its final response, with that one call
\* made, and it never goes back to the call.
C12_AtMostOneUpstreamCall ==
    \A w \in Workers :
        /\ upstreamCalls[w] <= 1
        /\ Done(w) => (response[w].calls = upstreamCalls[w] /\ response[w].rsp.status # 0)
        /\ data[w].kind \in {"transport", "decode"}
                => (/\ pc[w] \in {"ret", "done"}
                    /\ upstreamCalls[w] = 1
                    /\ ret[w].err = data[w].kind)
        /\ (Done(w) /\ UpstreamFailed(response[w]))
                => (response[w].calls = 1 /\ response[w].req.handler \in UpstreamHandlers)
        /\ pc[w] = "await" => upstreamCalls[w] = 0

\* A request of the net/http service whose one upstream call failed has its
\* response.
C12_Witness ==
    \E w \in GinWorkers :
        /\ Done(w)
        /\ response[w].req.handler \in LegacyHandlers
        /\ response[w].calls = 1
        /\ upstreamCalls[w] = 1
        /\ response[w].upstream.kind = "transport"
        /\ response[w].rsp.status = 200

\* The page holds the list items in the cache.
Cached(cache, p, items) == p \in DOMAIN cache /\ cache[p].data = items

\* C13: a list request consults the page cache first: the upstream call is
\* made only when the page is missing or expired, and when the call
\* succeeds its items are in the cache by the time the response document is
\* built.
C13_CacheFirstThenStore ==
    [][\A w \in GinWorkers :
        /\ (pc[w] = "http" /\ upstreamCalls'[w] > upstreamCalls[w])
                => ~CacheHit(page[w])
        /\ (pc[w] = "ret" /\ pc'[w] = "done" /\ response'[w].rsp.status = 200
            /\ response'[w].calls = 1)
                => Cached(datasetCache', page[w], ret[w].data)
        /\ (/\ pc[w] = "await"
            /\ pc'[w] = "done"
            /\ response'[w].req.handler \in ListHandlers
            /\ response'[w].calls = 1)
                => /\ ~CacheHit(response'[w].pageNo)
                   /\ response'[w].rsp.status = 200
                        => Cached(datasetCache', response'[w].pageNo,
                                  response'[w].upstream.Items)
      ]_vars

\* C14: a cache entry is never deleted: a page that has an entry keeps one in
\* the next state, and the entry (list and expiration), expired or not, only
\* changes in the store of a successful non-empty fetch of that same page.
C14_EntriesNeverDeleted ==
    [][\A p \in DOMAIN datasetCache :
        /\ p \in DOMAIN datasetCache'
        /\ datasetCache'[p] # datasetCache[p]
            => \E w \in Workers :
                /\ pc[w] \in {"wcs", "wcs2"}
                /\ page[w] = p
                /\ data[w].kind = "ok"
                /\ Len(data[w].Items) > 0
                /\ datasetCache'[p].data = data[w].Items
      ]_vars

C14_Witness ==
    /\ DOMAIN datasetCache = Pages
    /\ \E p \in Pages :
        /\ datasetCache[p].expiration # ZeroTime
        /\ datasetCache[p].expiration <= now
        /\ Len(datasetCache[p].data) > 0

\* The positive integer a page value of PositivePages denotes.
PageNumberOf(pageStr) == IF pageStr = <<"2">> THEN 2 ELSE 3

\* C15: /odps with page=n, n positive, answers with the ODPS v1.0 document
\* of upstream page n: the page fetched (or read from the cache) for the
\* request is n.
C15_OdpsServesRequestedPage ==
    \A w \in GinWorkers :
        (/\ Done(w)
         /\ response[w].req.handler = "ODPSGinHandler"
         /\ response[w].req.page \in PositivePages)
        => (/\ response[w].pageNo = PageNumberOf(response[w].req.page)
            /\ page[w] = PageNumberOf(response[w].req.page))

----------------------------------------------------------------------------
(* The transformers: properties of SpecTransform *)

\* The worker w holds the result of a call of transformer t.
Applied(w, t) == pc[w] = "done" /\ response[w].transformer = t

\* C16: the ToODPS document has odps = "1.0" and catalog.apis has exactly
\* one entry per input dataset, in input order; entry i has id = ID,
\* title = Shortname, description = "Dataset type: " + Type, version = "v1"
\* and exactly one endpoint, whose url is ApiUrl of dataset i.
C16_ToODPSEntries ==
    \A w \in GinWorkers :
        (Applied(w, "ToODPS") \/ Applied(w, "toODPS")) =>
            LET in == response[w].input
                apis == response[w].doc.catalog.apis
            IN  /\ response[w].doc.odps = "1.0"
                /\ Len(apis) = Len(in)
                /\ \A i \in 1..Len(in) :
                    /\ apis[i].id = in[i].ID
                    /\ apis[i].title = in[i].Shortname
                    /\ apis[i].description = "Dataset type: " \o in[i].Type
                    /\ apis[i].version = "v1"
                    /\ Len(apis[i].endpoints) = 1
                    /\ apis[i].endpoints[1].url = in[i].ApiUrl

C16_Witness ==
    \E w \in GinWorkers :
        /\ Applied(w, "ToODPS")
        /\ response[w].input = <<dsB, dsA>>
        /\ response[w].doc.catalog.apis[1].title = "Beta"
        /\ response[w].doc.catalog.apis[2].description = "Dataset type: TypeA"
        /\ response[w].doc.catalog.apis[2].endpoints[1].url = "https://example.org/api/a"

\* C17: ToDCAT of the empty list returns a catalog document, not the nil
\* map, and the dataset list of that catalog is empty.
C17_ToDCATOfEmpty ==
    \A w \in GinWorkers :
        (Applied(w, "ToDCAT") /\ Len(response[w].input) = 0) =>
            /\ ~response[w].doc.isNil
            /\ response[w].doc.type = "dcat:Catalog"
            /\ Len(response[w].doc.dataset) = 0

C17_Witness ==
    \E w \in GinWorkers :
        /\ Applied(w, "ToDCAT")
        /\ response[w].input = <<>>
        /\ response[w].doc.identifier = "catalog-001"
        /\ response[w].doc.dataset = <<>>

\* The ODPS v3.0 and v3.1 transformers of the two service versions.
ProductTransformers == {"ToODPS30", "ToODPS31", "toODPS30", "toODPS31"}

\* C18: the ODPS v3.1 and v3.0 transformers return the absence value (nil,
\* no document) exactly when the dataset list is empty, and a document for
\* every non-empty list.
C18_AbsentIffEmpty ==
    \A w \in GinWorkers :
        (pc[w] = "done" /\ response[w].transformer \in ProductTransformers)
        => (response[w].doc.isNil <=> Len(response[w].input) = 0)

\* The documents transformer t may return for the list l.
DocumentsOf(t, l) ==
    CASE t = "ToODPS30" -> {ToODPS30(l)}
      [] t = "ToODPS31" -> {ToODPS31(l)}
      [] t = "toODPS30" ->
            {toODPS30(l, c) : c \in MapOrders(CategoriesSet(l))}
      [] t = "toODPS31" ->
            {toODPS31(l, c) : c \in MapOrders(CategoriesSet(l))}

\* C19: the ODPS v3.0 and v3.1 transformers use only the first dataset: the
\* document of a non-empty list equals the document of every other
\* non-empty list with the same first element.
C19_OnlyFirstDatasetUsed ==
    \A w \in GinWorkers :
        (/\ pc[w] = "done"
         /\ response[w].transformer \in ProductTransformers
         /\ Len(response[w].input) > 0)
        => \A l \in DatasetLists :
            (Len(l) > 0 /\ l[1] = response[w].input[1])
            => \A d \in DocumentsOf(response[w].transformer, l) :
                d = response[w].doc

GinTransformers == {"ToDCAT", "ToODPS", "ToODPS30", "ToODPS31"}

\* C20: each of the four transformers is a pure function of its list: a
\* second call with the same list returns the document the first call
\* returned, whatever happened in between, and a call changes neither the
\* list nor the page cache.
C20_TransformersPure ==
    [][\A w \in GinWorkers :
        /\ (/\ pc[w] = "done"
            /\ pc'[w] = "done"
            /\ response[w].transformer \in GinTransformers
            /\ response'[w].transformer = response[w].transformer
            /\ response'[w].input = response[w].input)
                => response'[w].doc = response[w].doc
        /\ response'[w] # response[w]
                => (data' = data /\ datasetCache' = datasetCache)
      ]_vars

----------------------------------------------------------------------------
(* The DCAT and ODPS v3.1 documents: properties of SpecTransform *)

\* The worker w has just been handed the document of a call of t.
Returned(w, t) ==
    /\ response'[w] # response[w]
    /\ response'[w].transformer = t

\* Entry e of a DCAT catalog describes dataset ds: @id, title, description
\* and the single distribution, in the layout of transformer t.
IsDcatEntryOf(e, t, ds) ==
    /\ e.id = ds.Self
    /\ e.title = (IF t = "ToDCAT" THEN [en |-> ds.Shortname] ELSE ds.Shortname)
    /\ e.description = (IF t = "ToDCAT"
                        THEN [en |-> "Dataset type: " \o ds.Type]
                        ELSE "Dataset type: " \o ds.Type)
    /\ Len(e.distribution) = 1
    /\ e.distribution[1].accessURL = ds.ApiUrl

\* C21 as stated: the DCAT catalog has exactly one entry per input dataset,
\* in input order; entry i has @id = Self, a title from Shortname, a
\* description from Type, exactly one distribution with accessURL = ApiUrl,
\* and issued and modified dates equal to the date of the call.
C21_EntriesDatedToday ==
    [][\A w \in GinWorkers : \A t \in {"ToDCAT", "toDCAT"} :
        Returned(w, t) =>
            LET in == response'[w].input
                entries == response'[w].doc.dataset
            IN  /\ Len(entries) = Len(in)
                /\ \A i \in 1..Len(in) :
                    /\ IsDcatEntryOf(entries[i], t, in[i])
                    /\ "issued" \in DOMAIN entries[i]
                    /\ "modified" \in DOMAIN entries[i]
                    /\ entries[i].issued = Today(now)
                    /\ entries[i].modified = Today(now)
      ]_vars

\* C21, amended: the DCAT catalog has exactly one entry per input dataset,
\* in input order; entry i has @id = Self, a title from Shortname, a
\* description from Type and exactly one distribution with accessURL =
\* ApiUrl.  In ToDCAT the catalog is issued and modified on the date of the
\* call and entry i on FirstImport and LastChange of dataset i; toDCAT
\* writes no date at all.
C21_DcatEntries ==
    [][\A w \in GinWorkers : \A t \in {"ToDCAT", "toDCAT"} :
        Returned(w, t) =>
            LET in == response'[w].input
                doc == response'[w].doc
            IN  /\ doc.type = "dcat:Catalog"
                /\ Len(doc.dataset) = Len(in)
                /\ \A i \in 1..Len(in) :
                    /\ IsDcatEntryOf(doc.dataset[i], t, in[i])
                    /\ IF t = "ToDCAT"
                       THEN /\ doc.dataset[i].issued = in[i].FirstImport
                            /\ doc.dataset[i].modified = in[i].LastChange
                       ELSE {"issued", "modified"} \cap DOMAIN doc.dataset[i] = {}
                /\ IF t = "ToDCAT"
                   THEN doc.issued = Today(now) /\ doc.modified = Today(now)
                   ELSE {"issued", "modified"} \cap DOMAIN doc = {}
      ]_vars

C21_Witness ==
    \E w \in GinWorkers :
        /\ Applied(w, "ToDCAT")
        /\ response[w].input = <<dsB, dsA>>
        /\ response[w].doc.issued = "2024-06-01"
        /\ response[w].doc.dataset[1].id = "https://example.org/b"
        /\ response[w].doc.dataset[2].issued = "2024-01-01"
        /\ response[w].doc.dataset[2].modified = "2024-02-02"
        /\ response[w].doc.dataset[2].distribution[1].accessURL = "https://example.org/api/a"

\* C22: for a non-empty list the ODPS v3.1 document has version "3.1",
\* details.metadata equal to the Meta record of the first dataset, and
\* top-level dct:issued and dct:modified equal to FirstImport and LastChange
\* of that dataset.
C22_Odps31MetadataAndDates ==
    \A w \in GinWorkers :
        (/\ Applied(w, "ToODPS31") \/ Applied(w, "toODPS31")
         /\ Len(response[w].input) > 0)
        => LET first == response[w].input[1]
               doc == response[w].doc
           IN  /\ doc.version = "3.1"
               /\ doc.details.metadata = first.Meta
               /\ {"issued", "modified"} \subseteq DOMAIN doc
               /\ doc.issued = first.FirstImport
               /\ doc.modified = first.LastChange

----------------------------------------------------------------------------
(* Pagination fields, formats and endpoints: properties of SpecGin *)

\* C23: a successful response of the ODPS v3.1 listing endpoint, like one of
\* the ODPS v3.0 listing endpoint, has the three pagination fields
\* current_page, total_pages and totalRecord.
C23_PaginationFields ==
    \A w \in GinWorkers :
        (/\ Done(w)
         /\ response[w].req.handler \in {"ODPS30GinHandler", "ODPS31GinHandler"}
         /\ response[w].rsp.status = 200)
        => {"current_page", "total_pages", "totalRecord"}
                \subseteq DOMAIN response[w].rsp.body

\* The media type of a Content-Type header value, without its parameters.
MediaType(contentType) ==
    CASE contentType = "text/plain; charset=utf-8" -> "text/plain"
      [] contentType = "application/json; charset=utf-8" -> "application/json"
      [] OTHER -> contentType

\* The encoding the claim gives the document of handler h under format f.
ExpectedEncoding(h, f) ==
    CASE h = "DcatGinHandler" -> IF f = "yaml" THEN "yaml" ELSE "json"
      [] h = "ODPSGinHandler" -> "json"
      [] h \in {"ODPS30GinHandler", "ODPS31GinHandler", "ODPS30DetailGinHandler",
                "ODPS31DetailGinHandler"}
            -> IF f = "json" THEN "json" ELSE "yaml"

\* C24: a document of the DCAT endpoint is JSON unless format=yaml is given;
\* one of the ODPS v3.0 and v3.1 list and detail endpoints is YAML unless
\* format=json is given; one of the ODPS v1.0 endpoint is JSON whatever the
\* format parameter is; YAML goes out as text/plain, JSON as
\* application/json.  The index page and the health check are not among the
\* endpoints the claim names.
C24_FormatSelection ==
    \A w \in GinWorkers :
        (/\ Done(w)
         /\ response[w].req.handler \in ListHandlers \cup DetailHandlers
         /\ response[w].rsp.status = 200)
        => LET h == response[w].req.handler
               f == response[w].req.format
               rsp == response[w].rsp
           IN  /\ rsp.encoding \in {"json", "yaml"}
               /\ rsp.encoding = ExpectedEncoding(h, f)
               /\ rsp.encoding = "yaml" => MediaType(rsp.contentType) = "text/plain"
               /\ rsp.encoding = "json" => MediaType(rsp.contentType) = "application/json"

C24_Witness ==
    \E w \in GinWorkers :
        /\ Done(w)
        /\ response[w].req.handler = "ODPS31DetailGinHandler"
        /\ response[w].req.format = "yaml"
        /\ response[w].rsp.status = 200
        /\ response[w].rsp.encoding = "yaml"
        /\ response[w].rsp.contentType = "text/plain; charset=utf-8"

----------------------------------------------------------------------------
(* The net/http service: properties of SpecLegacy *)

\* fetchDatasets handed the request of w an error or no dataset.
FetchFailedOrEmpty(w) == ret[w].err # "nil" \/ Len(ret[w].data) = 0

\* The document of handler h is the one made from the placeholder dataset.
IsPlaceholderDocument(h, doc) ==
    CASE h = "dcatHandler" ->
            /\ Len(doc.dataset) = 1
            /\ doc.dataset[1].id = "https://example.org/default"
            /\ doc.dataset[1].title = "Default Dataset"
      [] h = "odpsHandler" ->
            /\ Len(doc.catalog.apis) = 1
            /\ doc.catalog.apis[1].id = "default"
      [] h = "odps30Handler" ->
            /\ doc.product.en.productID = "default"
            /\ Len(doc.product.en.useCases) = 1
            /\ doc.product.en.useCases[1].useCase.useCaseTitle = "Default Dataset"
      [] h = "odps31Handler" ->
            /\ doc.details.metadata.datasetCount = 1
            /\ Len(doc.product.en.useCases) = 1
            /\ doc.product.en.useCases[1].useCase.useCaseTitle = "Default Dataset"

\* C25: in the net/http service every list handler answers 200 with a
\* document, never not-found; the document is made from the single
\* placeholder dataset (ID "default") whenever fetchDatasets returned an
\* error or an empty list; a page value that is absent, not a number or not
\* positive is served as page 1.
C25_DefaultDatasetFallback ==
    \A w \in GinWorkers :
        (Done(w) /\ response[w].req.handler \in LegacyHandlers)
        => /\ response[w].rsp.status = 200
           /\ ~response[w].rsp.body.isNil
           /\ FetchFailedOrEmpty(w) =>
                IsPlaceholderDocument(response[w].req.handler, response[w].rsp.body)
           /\ response[w].req.page \in NotPositivePages \cup {<<>>, OutOfRangePage} =>
                (page[w] = 1 /\ response[w].pageNo = 1)
           /\ response[w].req.page = <<"2">> => page[w] = 2

C25_Witness ==
    \E w \in GinWorkers :
        /\ Done(w)
        /\ response[w].req.handler = "odps31Handler"
        /\ response[w].req.page = <<"-", "1">>
        /\ page[w] = 1
        /\ ret[w].isNil
        /\ ret[w].err = "nil"
        /\ data[w].kind = "ok"
        /\ response[w].rsp.status = 200
        /\ response[w].rsp.body.details.metadata.datasetCount = 1

\* C26: a successful ODPS v3.0 or v3.1 list response has exactly one
\* endpoint object per item of the upstream page, in upstream order, with
\* uuid = ID, datasetName = Shortname, originalUrl = ApiUrl and
\* url = BaseURL + "odps30/" (resp. "odps31/") + ID; its current_page is the
\* CurrentPage value upstream reported.
C26_EndpointsFollowUpstream ==
    \A w \in GinWorkers :
        (/\ Done(w)
         /\ response[w].req.handler \in {"ODPS30GinHandler", "ODPS31GinHandler"}
         /\ response[w].rsp.status = 200)
        => LET items == response[w].upstream.Items
               body == response[w].rsp.body
               prefix == IF response[w].req.handler = "ODPS30GinHandler"
                         THEN "odps30/" ELSE "odps31/"
           IN  /\ Len(body.endpoints) = Len(items)
               /\ \A i \in 1..Len(items) :
                    /\ DOMAIN body.endpoints[i] =
                            {"uuid", "datasetName", "originalUrl", "url"}
                    /\ body.endpoints[i].uuid = items[i].ID
                    /\ body.endpoints[i].datasetName = items[i].Shortname
                    /\ body.endpoints[i].originalUrl = items[i].ApiUrl
                    /\ body.endpoints[i].url = BaseURL \o prefix \o items[i].ID
               /\ body.current_page = response[w].upstream.CurrentPage

C26_Witness ==
    \E w \in GinWorkers :
        /\ Done(w)
        /\ response[w].req.handler = "ODPS31GinHandler"
        /\ response[w].rsp.status = 200
        /\ response[w].upstream.Items = <<dsB, dsA>>
        /\ response[w].upstream.CurrentPage = 2
        /\ response[w].rsp.body.current_page = 2
        /\ response[w].rsp.body.endpoints[1].uuid = "id-b"
        /\ response[w].rsp.body.endpoints[2].url =
                "https://data-catalog.opendatahub.testingmachine.eu/odps31/id-a"

----------------------------------------------------------------------------
(* Locks, concurrent misses and failed fetches: properties of Spec *)

\* The workers that hold no lock by their position: not started, waiting
\* for a lock, on the upstream call, or returned.
Outside == {w \in Workers : pc[w] \in {"idle", "rlock", "http", "wlock", "ret"}}

\* C27: a request that is on its upstream call or has returned (by a hit, a
\* transport error, a decode error, no data or a store) holds neither the
\* read nor the write lock: the read lock is held only by the requests
\* inside the lookup and the write lock only by one inside the store, and
\* when every other request is on upstream or has returned, a request at
\* RLock or at Lock can take its lock.
C27_NoLockHeldOutsideSections ==
    /\ cacheMutex.readers = Cardinality(InLookup)
    /\ cacheMutex.locked <=> InStore # {}
    /\ InLookup \cap Outside = {} /\ InStore \cap Outside = {}
    /\ Outside = Workers => cacheMutex = [readers |-> 0, locked |-> FALSE]
    /\ \A v \in Workers :
        (\A u \in Workers \ {v} : pc[u] \in {"http", "ret"})
        => /\ pc[v] = "rlock" => CanRLock
           /\ pc[v] = "wlock" => CanLock

\* C27 witness: one request is stalled on its upstream call while the other,
\* for the same page, is inside its store and holds the write lock.
C27_Witness ==
    \E w, v \in Workers :
        /\ w # v /\ page[w] = page[v]
        /\ pc[w] = "http"
        /\ pc[v] = "wcs2"
        /\ cacheMutex = [readers |-> 0, locked |-> TRUE]

\* The request of w is back from fetchDatasets after a miss, an upstream
\* call of its own and a store.
Stored(w) ==
    /\ pc[w] = "ret"
    /\ upstreamCalls[w] = 1
    /\ ~ret[w].isNil
    /\ item[w].data = ret[w].data

\* C28: lookup and store of one request are separate critical sections.  Of
\* two concurrent requests for the same page, a lookup that finds no fresh
\* entry goes to an upstream call of its own whatever the other request is
\* doing (no single-flight), every upstream call that decoded items goes on
\* to the store, and when the second of the two stores has finished the
\* entry of the page is exactly the list and expiration of that store, the
\* one that took the write lock last; it stays so while both have finished.
C28_LastStoreWins ==
    [][\A w, v \in Workers :
        (w # v /\ page[w] = page[v]) =>
            /\ (pc[w] = "rcs" /\ pc'[w] # "rcs" /\ ~Fresh(page[w]))
                    => (pc'[w] = "http" /\ cacheMutex'.readers = cacheMutex.readers - 1)
            /\ (pc[w] = "http" /\ pc'[w] # "http")
                    => /\ upstreamCalls'[w] = upstreamCalls[w] + 1
                       /\ (data'[w].kind = "ok" /\ Len(data'[w].Items) > 0)
                            => pc'[w] = "wlock"
            /\ (Stored(w) /\ pc[v] = "wunlock" /\ pc'[v] = "ret")
                    => /\ datasetCache'[page[v]] = item[v]
                       /\ item[v] = [data |-> data[v].Items,
                                     expiration |-> item[v].expiration]
                       /\ upstreamCalls[v] = 1
            /\ (Stored(w) /\ Stored(v) /\ pc'[w] = "ret" /\ pc'[v] = "ret")
                    => datasetCache' = datasetCache
      ]_vars

\* C28 witness: both requests missed on the same page, each made one upstream
\* call and stored, the lists differ, and the entry is the item of the
\* second store, not of the first.
C28_Witness ==
    \E w, v \in Workers :
        /\ w # v /\ page[w] = page[v]
        /\ Stored(w) /\ Stored(v)
        /\ upstreamCalls[w] + upstreamCalls[v] = 2
        /\ item[w].data # item[v].data
        /\ datasetCache[page[v]] = item[v]
        /\ datasetCache[page[v]] # item[w]
        /\ item[w].expiration <= item[v].expiration

\* The request of w is back from fetchDatasets with a transport error or a
\* decode error.
Failed(w) == pc[w] = "ret" /\ ret[w].err \in {"transport", "decode"}

\* C29: a fetchDatasets(p) call that ends in a transport error or a decode
\* error leaves the whole cache as it was: none of its steps (RLock, the
\* lookup, the upstream call and the error return) adds or changes an entry,
\* it returns no list, and an expired entry of p keeps its list and
\* expiration and is still not a hit after the return.
C29_FailedFetchLeavesCache ==
    [][\A w \in Workers :
        /\ (pc[w] \in {"rlock", "rcs", "http"} /\ pc'[w] # pc[w])
            => datasetCache' = datasetCache
        /\ (pc[w] = "http" /\ Failed(w)')
            => /\ upstreamCalls'[w] = 1
               /\ ret'[w].isNil /\ ret'[w].data = <<>>
               /\ data'[w].kind = ret'[w].err
               /\ DOMAIN datasetCache' = DOMAIN datasetCache
               /\ (page[w] \in DOMAIN datasetCache /\ ~Fresh(page[w]))
                    => /\ datasetCache'[page[w]] = datasetCache[page[w]]
                       /\ ~CacheHit(page[w])'
      ]_vars

\* C29 witness: one request is back with a decode error for a page whose
\* entry had expired; the entry is still there, expired at this very minute,
\* and the other request has just looked the page up and missed.
C29_Witness ==
    \E w, v \in Workers :
        /\ w # v /\ page[w] = page[v]
        /\ Failed(w) /\ ret[w].err = "decode"
        /\ page[w] \in DOMAIN datasetCache
        /\ datasetCache[page[w]].expiration = now
        /\ Len(datasetCache[page[w]].data) > 0
        /\ pc[v] = "http" /\ upstreamCalls[v] = 0

----------------------------------------------------------------------------
(* The entries of the page cache: property of SpecLegacy, SpecGin and Spec *)

\* C30: in every reachable state every entry of the page cache has a key
\* that is an integer >= 1 and holds a non-empty dataset list, the
\* half-written entry of a store in progress included.
C30_CacheEntriesWellFormed ==
    \A p \in DOMAIN datasetCache :
        /\ p \in Int
        /\ p >= 1
        /\ Len(datasetCache[p].data) > 0

\* C30 witness: a request with page=0 is inside its store, the entry it is
\* writing is the half-written entry of key 1, and page 2 has an entry too.
C30_Witness ==
    \E w \in GinWorkers :
        /\ handler[w] = "dcatHandler"
        /\ response[w].req.page = <<"0">>
        /\ pc[w] = "wcs2"
        /\ page[w] = 1
        /\ DOMAIN datasetCache = {1, 2}
        /\ datasetCache[1].data = data[w].Items
        /\ datasetCache[1] # item[w]

====
